---- MODULE Spec2Model ----
(***************************************************************************)
(* headless-image-crop: the constraint engine (ClampBox), the drag state   *)
(* machine (Movement) and the Crop component's notification plumbing.      *)
(*                                                                         *)
(* Rectangles are objects: `heap` maps object identities to DataRect       *)
(* values, so that a clone and a shared reference are different things.    *)
(***************************************************************************)
EXTENDS Integers, Sequences, FiniteSets, TLC

VARIABLES
    heap,        \* object identity -> DataRect value (left, top, right, bottom)
    nBox,        \* the engine: references to _inner/_outer, _minWidth, _minHeight
    given,       \* the minWidth/minHeight passed to the engine's constructor
    call,        \* the last operation or input event, with its argument
    target,      \* Movement.target: "" (Idle), a handle direction or "area"
    lastPageX_,  \* Movement.lastPageX_
    lastPageY_,  \* Movement.lastPageY_
    moved_,      \* Movement.moved_
    listeners,   \* listeners attached to the document, per event type
    throttle,    \* notifyDataBoxChanged: the deferred call and its argument
    rafQueue,    \* animation-frame callbacks requested and not yet run
    props,       \* the Crop component's props
    out,         \* what the last step notified on events$, in order
    pub,         \* what the last step notified on dataBox$, in order
    cbs,         \* the callbacks of the props the last step called, in order
    log,         \* topics notified on events$ since the last effective drag-start
    window,      \* pointer-moves handed to the throttle between two frames
    kept,        \* a snapshot a subscriber has kept a reference to
    mounted,     \* Crop's layout effect is in place: its cleanup has not run
    channel      \* a Subscribable: listeners_, and what its listeners do and got

(***************************************************************************)
(* Bounds                                                                  *)
(***************************************************************************)
MaxCoord == 2
\* pointer-moves counted between two frames
MaxBurst == 2
\* unsubscribe functions of one listener not yet called
MaxHandles == 2
\* listener invocations followed within one notify
MaxCalls == 4

Coords == 0..MaxCoord
\* arguments of the engine's operations, in and out of range
Args == -1..(MaxCoord + 1)
\* requested minimum sizes: negative, fitting, larger than any outer box
MinArgs == {-1, 1, MaxCoord + 1}
\* offset descriptor fields, pixel and percentage units
PxVals == {-1, 1, MaxCoord + 1}
PctVals == {-50, 50, 150}

(***************************************************************************)
(* Numbers                                                                 *)
(***************************************************************************)
Max(a, b) == IF a >= b THEN a ELSE b

Min(a, b) == IF a <= b THEN a ELSE b

\* clamp(min, max, value) of @callcc/toolkit-js, as ClampBox calls it
clamp(lo, hi, v) == Max(lo, Min(hi, v))

(***************************************************************************)
(* Numbers of the language: IEEE-754 doubles. A positive double is kept as *)
(* [m, e]: m its 53 significand bits, the first of them 1, and e its       *)
(* exponent, the value being 0.m * 2^e                                     *)
(***************************************************************************)
\* the bits of a natural number, most significant first, none for 0
RECURSIVE Bits(_)
Bits(n) == IF n = 0 THEN <<>> ELSE Append(Bits(n \div 2), n % 2)

\* the natural number of a sequence of bits
RECURSIVE Value(_)
Value(bits) ==
    IF bits = <<>> THEN 0
    ELSE 2 * Value(SubSeq(bits, 1, Len(bits) - 1)) + bits[Len(bits)]

\* some bit is set
SomeBit(bits) == \E i \in 1..Len(bits) : bits[i] = 1

\* the bits plus one, for bits that are not all set
Inc(bits) ==
    LET j == CHOOSE i \in 1..Len(bits) :
                 bits[i] = 0 /\ \A k \in (i + 1)..Len(bits) : bits[k] = 1
    IN  [i \in 1..Len(bits) |-> IF i < j THEN bits[i] ELSE IF i = j THEN 1 ELSE 0]

\* the double nearest to 0.bits * 2^e, the first bit being 1, with more of the
\* value below the bits if sticky; a tie goes to the even significand
Double(bits, sticky, e) ==
    IF Len(bits) <= 53
    THEN [m |-> bits \o [i \in 1..(53 - Len(bits)) |-> 0], e |-> e]
    ELSE LET m  == SubSeq(bits, 1, 53)
             up == /\ bits[54] = 1
                   /\ sticky \/ SomeBit(SubSeq(bits, 55, Len(bits))) \/ m[53] = 1
         IN  IF ~up THEN [m |-> m, e |-> e]
             ELSE IF \E i \in 1..53 : m[i] = 0 THEN [m |-> Inc(m), e |-> e]
             ELSE [m |-> [i \in 1..53 |-> IF i = 1 THEN 1 ELSE 0], e |-> e + 1]

\* long division, a bit of the dividend at a time: r is the remainder, acc the
\* quotient's bits from its first 1, w the weight of the next quotient bit
RECURSIVE Quot(_, _, _, _, _, _)
Quot(dividend, d, r, acc, w, e) ==
    IF Len(acc) = 54 \/ (dividend = <<>> /\ r = 0)
    THEN Double(acc, r > 0 \/ SomeBit(dividend), e)
    ELSE LET r2 == 2 * r + (IF dividend = <<>> THEN 0 ELSE Head(dividend))
             q  == IF r2 >= d THEN 1 ELSE 0
         IN  CHOOSE x \in
                 {Quot(n.rest, d, n.r, n.acc, n.w, n.e) :
                     n \in {[rest |-> IF dividend = <<>> THEN <<>> ELSE Tail(dividend),
                             r    |-> r2 - q * d,
                             acc  |-> IF acc = <<>> /\ q = 0 THEN acc ELSE Append(acc, q),
                             w    |-> w - 1,
                             e    |-> IF acc = <<>> /\ q = 1 THEN w + 1 ELSE e]}} : TRUE

\* a / d as a double, for integers a > 0 and d > 0
Divide(a, d) == Quot(Bits(a), d, 0, <<>>, Len(Bits(a)) - 1, 0)

\* the bits of m * s, from bit i of m down to its first, least significant first
RECURSIVE Mul(_, _, _, _, _)
Mul(m, s, i, carry, acc) ==
    IF i = 0 THEN Bits(carry) \o acc
    ELSE CHOOSE x \in
             {Mul(m, s, i - 1, n.carry, n.acc) :
                 n \in {[carry |-> (m[i] * s + carry) \div 2,
                         acc   |-> <<(m[i] * s + carry) % 2>> \o acc]}} : TRUE

\* x * s as a double, for a double x and an integer s > 0
Times(x, s) ==
    CHOOSE d \in {Double(p, FALSE, x.e + Len(p) - 53) : p \in {Mul(x.m, s, 53, 0, <<>>)}} :
        TRUE

\* Math.round of the double x, negated if neg: the nearest integer, a half
\* going towards +infinity
MathRound(neg, x) ==
    LET n     == IF x.e <= 0 THEN 0 ELSE Value(SubSeq(x.m, 1, Min(x.e, 53)))
        half  == IF x.e < 0 \/ x.e >= 53 THEN 0 ELSE x.m[x.e + 1]
        below == SomeBit(SubSeq(x.m, x.e + 2, 53))
    IN  IF neg THEN -(n + (IF half = 1 /\ below THEN 1 ELSE 0)) ELSE n + half

Abs(a) == IF a < 0 THEN -a ELSE a

\* Math.round((pct / 100) * size), the quotient and the product each rounded
\* to a double
RoundDouble(pct, size) ==
    IF pct = 0 \/ size = 0 THEN 0
    ELSE CHOOSE n \in {MathRound((pct < 0) # (size < 0), product) :
                           product \in {Times(quotient, Abs(size)) :
                                           quotient \in {Divide(Abs(pct), 100)}}} : TRUE

\* Math.round((pct / 100) * size). The two roundings to a double move the
\* product by less than 1/100, and pct * size / 100 is a multiple of 1/100: they
\* can change the result only if it ends in a half, and not if pct / 100 is a
\* multiple of 1/4, which is a double and makes the product exact; elsewhere
\* the result is that of the exact product, a half going towards +infinity.
RoundPct(pct, size) ==
    IF (pct * size) % 100 = 50 /\ pct % 25 # 0
    THEN RoundDouble(pct, size)
    ELSE (2 * pct * size + 100) \div 200

(***************************************************************************)
(* DataRect                                                                *)
(***************************************************************************)
DataRect(l, t, r, b) == [left |-> l, top |-> t, right |-> r, bottom |-> b]

width(rect) == rect.right - rect.left

height(rect) == rect.bottom - rect.top

(***************************************************************************)
(* ClampBox: the methods, on the value of one instance                     *)
(*   [inner, outer : DataRect, minWidth, minHeight]                        *)
(***************************************************************************)
\* moveLeftLine taking x as a distance from where the edge is
moveLeftLine_Relative(box, x) ==
    [box EXCEPT !.inner.left =
        clamp(box.outer.left,
              Max(box.outer.left, box.inner.right - box.minWidth),
              box.inner.left + x)]

moveLeftLine(box, x) ==
    [box EXCEPT !.inner.left =
        clamp(box.outer.left,
              Max(box.outer.left, box.inner.right - box.minWidth),
              x)]

moveTopLine(box, y) ==
    [box EXCEPT !.inner.top =
        clamp(box.outer.top,
              Max(box.outer.top, box.inner.bottom - box.minHeight),
              y)]

\* moveRightLine without the minimum width in its lower bound
moveRightLine_NoMin(box, x) ==
    [box EXCEPT !.inner.right = clamp(box.inner.left, box.outer.right, x)]

\* moveRightLine with a lower bound not held at the outer box's right edge
moveRightLine_NoGuard(box, x) ==
    [box EXCEPT !.inner.right =
        clamp(box.inner.left + box.minWidth, box.outer.right, x)]

moveRightLine(box, x) ==
    [box EXCEPT !.inner.right =
        clamp(Min(box.outer.right, box.inner.left + box.minWidth),
              box.outer.right,
              x)]

moveBottomLine(box, y) ==
    [box EXCEPT !.inner.bottom =
        clamp(Min(box.outer.bottom, box.inner.top + box.minHeight),
              box.outer.bottom,
              y)]

\* moveX dragging the outer box along with inner
moveX_WithOuter(box, dx) ==
    [box EXCEPT !.inner.left = @ + dx, !.inner.right = @ + dx,
                !.outer.left = @ + dx, !.outer.right = @ + dx]

\* moveX without the clamp of dx
moveX_NoClamp(box, dx) ==
    [box EXCEPT !.inner.left = @ + dx, !.inner.right = @ + dx]

moveX(box, dx) ==
    LET d == IF dx > 0 THEN Min(dx, box.outer.right - box.inner.right)
             ELSE IF dx < 0 THEN Max(dx, box.outer.left - box.inner.left)
             ELSE dx
    IN  IF d # 0
        THEN [box EXCEPT !.inner.left = @ + d, !.inner.right = @ + d]
        ELSE box

\* moveY moving the top edge only
moveY_OneEdge(box, dy) ==
    LET d == IF dy > 0 THEN Min(dy, box.outer.bottom - box.inner.bottom)
             ELSE IF dy < 0 THEN Max(dy, box.outer.top - box.inner.top)
             ELSE dy
    IN  IF d # 0 THEN [box EXCEPT !.inner.top = @ + d] ELSE box

moveY(box, dy) ==
    LET d == IF dy > 0 THEN Min(dy, box.outer.bottom - box.inner.bottom)
             ELSE IF dy < 0 THEN Max(dy, box.outer.top - box.inner.top)
             ELSE dy
    IN  IF d # 0
        THEN [box EXCEPT !.inner.top = @ + d, !.inner.bottom = @ + d]
        ELSE box

\* the offset descriptor; `given` is FALSE for an undefined offset
NoOffset == [given |-> FALSE]

Offset(l, t, w, h, u) ==
    [given |-> TRUE, left |-> l, top |-> t, width |-> w, height |-> h, unit |-> u]

\* the minimums stored as they are passed
StoredMin_AsGiven(size, min) == min

\* the stored minimums
StoredMin(size, min) == clamp(0, size, min)

\* the constructor measuring the offset's width and height from the outer
\* box's left and top instead of the inner's
ClampBox_SizeFromOuter(left, top, right, bottom, minWidth, minHeight, offset) ==
    LET b0 == [inner |-> DataRect(left, top, right, bottom),
               outer |-> DataRect(left, top, right, bottom),
               minWidth |-> clamp(0, right - left, minWidth),
               minHeight |-> clamp(0, bottom - top, minHeight)]
    IN  IF offset.given
        THEN LET pct == offset.unit = "%"
                 ml == IF pct THEN RoundPct(offset.left, width(b0.outer)) ELSE offset.left
                 mt == IF pct THEN RoundPct(offset.top, height(b0.outer)) ELSE offset.top
                 w  == IF pct THEN RoundPct(offset.width, width(b0.outer)) ELSE offset.width
                 h  == IF pct THEN RoundPct(offset.height, height(b0.outer)) ELSE offset.height
                 b1 == moveLeftLine(b0, b0.outer.left + ml)
                 b2 == moveTopLine(b1, b1.outer.top + mt)
                 b3 == moveRightLine(b2, b2.outer.left + w)
                 b4 == moveBottomLine(b3, b3.outer.top + h)
             IN  b4
        ELSE b0

\* constructor
ClampBox(left, top, right, bottom, minWidth, minHeight, offset) ==
    LET b0 == [inner |-> DataRect(left, top, right, bottom),
               outer |-> DataRect(left, top, right, bottom),
               minWidth |-> StoredMin(right - left, minWidth),
               minHeight |-> StoredMin(bottom - top, minHeight)]
    IN  IF offset.given
        THEN LET ml == IF offset.unit = "%"
                       THEN RoundPct(offset.left, width(b0.outer))
                       ELSE offset.left
                 mt == IF offset.unit = "%"
                       THEN RoundPct(offset.top, height(b0.outer))
                       ELSE offset.top
                 w  == IF offset.unit = "%"
                       THEN RoundPct(offset.width, width(b0.outer))
                       ELSE offset.width
                 h  == IF offset.unit = "%"
                       THEN RoundPct(offset.height, height(b0.outer))
                       ELSE offset.height
                 b1 == moveLeftLine(b0, b0.outer.left + ml)
                 b2 == moveTopLine(b1, b1.outer.top + mt)
                 b3 == moveRightLine(b2, b2.inner.left + w)
                 b4 == moveBottomLine(b3, b3.inner.top + h)
             IN  b4
        ELSE b0

\* NestedBox constructor: the minimums are stored as passed; its methods are
\* those of ClampBox line for line
NestedBox(left, top, right, bottom, minWidth, minHeight, offset) ==
    LET b0 == [inner |-> DataRect(left, top, right, bottom),
               outer |-> DataRect(left, top, right, bottom),
               minWidth |-> minWidth,
               minHeight |-> minHeight]
    IN  IF offset.given
        THEN LET ml == IF offset.unit = "%"
                       THEN RoundPct(offset.left, width(b0.outer))
                       ELSE offset.left
                 mt == IF offset.unit = "%"
                       THEN RoundPct(offset.top, height(b0.outer))
                       ELSE offset.top
                 w  == IF offset.unit = "%"
                       THEN RoundPct(offset.width, width(b0.outer))
                       ELSE offset.width
                 h  == IF offset.unit = "%"
                       THEN RoundPct(offset.height, height(b0.outer))
                       ELSE offset.height
                 b1 == moveLeftLine(b0, b0.outer.left + ml)
                 b2 == moveTopLine(b1, b1.outer.top + mt)
                 b3 == moveRightLine(b2, b2.inner.left + w)
                 b4 == moveBottomLine(b3, b3.inner.top + h)
             IN  b4
        ELSE b0

(***************************************************************************)
(* Objects                                                                 *)
(***************************************************************************)
\* a fresh object identity
NewId(h) == CHOOSE i \in 1..(Cardinality(DOMAIN h) + 1) : i \notin DOMAIN h

\* h with a new object holding v; the identity is NewId(h)
Alloc(h, v) == [i \in (DOMAIN h) \cup {NewId(h)} |-> IF i \in DOMAIN h THEN h[i] ELSE v]

\* the value of the engine nb in heap h
Box(h, nb) ==
    [inner |-> h[nb.inner], outer |-> h[nb.outer],
     minWidth |-> nb.minWidth, minHeight |-> nb.minHeight]

\* the engine's methods assign to the fields of this._inner in place
Store(h, nb, box) == [h EXCEPT ![nb.inner] = box.inner, ![nb.outer] = box.outer]

\* new ClampBox(...): two new DataRect objects
NewBox(h, box) ==
    LET h1 == Alloc(h, box.inner)
        i  == NewId(h)
        h2 == Alloc(h1, box.outer)
        o  == NewId(h1)
    IN  [heap |-> h2,
         nBox |-> [inner |-> i, outer |-> o,
                   minWidth |-> box.minWidth, minHeight |-> box.minHeight]]

Inner == heap[nBox.inner]

Outer == heap[nBox.outer]

EmptyHeap == [i \in {} |-> DataRect(0, 0, 0, 0)]

vars == <<heap, nBox, given, call, target, lastPageX_, lastPageY_, moved_,
          listeners, throttle, rafQueue, props, out, pub, cbs, log, window,
          kept, mounted, channel>>

(***************************************************************************)
(* Subscribable: listeners_ is a Set, kept as the list of its entries in   *)
(* insertion order; a deleted entry leaves an empty slot, "", for an       *)
(* iteration in progress to pass over, and slots are dropped between calls *)
(***************************************************************************)
\* listener functions: "b" only takes the value, "a" may also call subscribe
\* and unsubscribe functions while it is being notified
Listeners == {"a", "b"}

Values == {"v", "w"}

Do(op, who) == [op |-> op, who |-> who]

\* what listener "a" does when invoked
Scripts ==
    {<<>>,
     <<Do("unsubscribe", "a")>>,
     <<Do("unsubscribe", "b")>>,
     <<Do("subscribe", "b")>>,
     <<Do("unsubscribe", "a"), Do("subscribe", "a")>>,
     <<Do("unsubscribe", "b"), Do("subscribe", "b")>>}

\* new Subscribable(), with the listener functions that will use it;
\* handles: the unsubscribe functions returned for a listener, not yet called
\* (fresh) and called before (used); on: whether the last of subscribe and
\* unsubscribe called for a listener was subscribe; got, added, removed,
\* overrun: what the step in progress delivered, subscribed, unsubscribed,
\* and whether it was cut short after MaxCalls invocations
NewChannel(sa) ==
    [listeners_ |-> <<>>,
     script     |-> [l \in Listeners |-> IF l = "a" THEN sa ELSE <<>>],
     handles    |-> [l \in Listeners |-> [fresh |-> 0, used |-> FALSE]],
     on         |-> [l \in Listeners |-> FALSE],
     got        |-> [l \in Listeners |-> <<>>],
     added      |-> {},
     removed    |-> {},
     overrun    |-> FALSE]

\* Set.has
has(entries, x) == \E i \in 1..Len(entries) : entries[i] = x

\* an add that appends the value whether present or not, as a list would
add_Always(entries, x) == Append(entries, x)

\* Set.add: appended unless present
add(entries, x) == IF has(entries, x) THEN entries ELSE Append(entries, x)

\* Set.delete: the entry's slot is emptied
delete(entries, x) == [i \in 1..Len(entries) |-> IF entries[i] = x THEN "" ELSE entries[i]]

\* the entries without the empty slots
Compact(entries) == SelectSeq(entries, LAMBDA e : e # "")

\* Subscribable.subscribe(listener), returning a new unsubscribe function
subscribe(c, l) ==
    [c EXCEPT !.listeners_ = add(@, l),
              !.handles[l].fresh = Min(MaxHandles, @ + 1),
              !.on[l] = TRUE,
              !.added = @ \cup {l}]

\* an unsubscribe function returned for l, called for the first time or again
unsubscribe(c, l, again) ==
    [c EXCEPT !.listeners_ = delete(@, l),
              !.handles[l] = IF again THEN @ ELSE [fresh |-> @.fresh - 1, used |-> TRUE],
              !.on[l] = FALSE,
              !.removed = @ \cup {l}]

\* a listener's calls, in order; an unsubscribe function is one the listener
\* can hold: not yet called if there is one, else called before, else none
RECURSIVE run(_, _)
run(c, ops) ==
    IF ops = <<>> THEN c
    ELSE LET o == Head(ops)
             c1 == IF o.op = "subscribe" THEN subscribe(c, o.who)
                   ELSE IF c.handles[o.who].fresh > 0 THEN unsubscribe(c, o.who, FALSE)
                   ELSE IF c.handles[o.who].used THEN unsubscribe(c, o.who, TRUE)
                   ELSE c
         IN  run(c1, Tail(ops))

\* listener(value)
invoke(c, l, v) == run([c EXCEPT !.got[l] = Append(@, v)], c.script[l])

\* for (const listener of this.listeners_): the iterator advances over the
\* entries as they are when it reaches them
RECURSIVE iterate(_, _, _, _)
iterate(c, v, i, fuel) ==
    IF i > Len(c.listeners_) THEN c
    ELSE IF c.listeners_[i] = "" THEN iterate(c, v, i + 1, fuel)
    ELSE IF fuel = 0 THEN [c EXCEPT !.overrun = TRUE]
    ELSE iterate(invoke(c, c.listeners_[i], v), v, i + 1, fuel - 1)

\* notify delivering to the listeners subscribed when it is called, each twice
notify_Twice(c, v) ==
    [c EXCEPT !.got = [l \in Listeners |-> IF has(c.listeners_, l) THEN <<v, v>> ELSE <<>>]]

\* Subscribable.notify(value)
notify(c, v) == iterate(c, v, 1, MaxCalls)

(***************************************************************************)
(* Movement and Crop: the handlers, on the program state as a record       *)
(***************************************************************************)
EventTypes == {"mousemove", "mouseup", "touchstart", "touchmove", "touchend", "touchcancel"}

Directions ==
    {"left", "top", "right", "bottom", "left-top", "left-bottom", "right-top", "right-bottom"}

\* target.includes(edge), for the direction tokens
includes(dir, edge) ==
    CASE edge = "left"   -> dir \in {"left", "left-top", "left-bottom"}
      [] edge = "right"  -> dir \in {"right", "right-top", "right-bottom"}
      [] edge = "top"    -> dir \in {"top", "left-top", "right-top"}
      [] edge = "bottom" -> dir \in {"bottom", "left-bottom", "right-bottom"}

NoListeners == [e \in EventTypes |-> 0]

NoArgs == [set |-> FALSE]

NoWindow == [moves |-> 0, closed |-> TRUE, last |-> [set |-> FALSE]]

\* the values notified on events$: {topic: "start", payload: target} and
\* {topic: "move" | "end", payload: DataBox}
StartEvent(tgt) == [topic |-> "start", target |-> tgt]

BoxEvent(topic, box) == [topic |-> topic, box |-> box]

\* the mutable program state of a step
State ==
    [heap |-> heap, nBox |-> nBox, given |-> given, target |-> target,
     lastPageX_ |-> lastPageX_, lastPageY_ |-> lastPageY_, moved_ |-> moved_,
     listeners |-> listeners, throttle |-> throttle, rafQueue |-> rafQueue,
     out |-> <<>>, pub |-> <<>>, cbs |-> <<>>, handed |-> 0, kept |-> kept, mounted |-> mounted]

\* document.addEventListener / removeEventListener of one closure
addEventListener(s, type) == [s EXCEPT !.listeners[type] = @ + 1]

removeEventListener(s, type) == [s EXCEPT !.listeners[type] = Max(0, @ - 1)]

\* DataRect.clone(): a new object with the same four fields
clone(h, ref) == Alloc(h, h[ref])

\* toDataBox handing out the engine's own rectangles
toDataBox_Live(s) == [s |-> s, box |-> s.nBox]

\* ClampBox.toDataBox(): clones of _inner and _outer
toDataBox(s) ==
    LET h1 == clone(s.heap, s.nBox.inner)
        i  == NewId(s.heap)
        h2 == clone(h1, s.nBox.outer)
        o  == NewId(h1)
    IN  [s |-> [s EXCEPT !.heap = h2], box |-> [inner |-> i, outer |-> o]]

\* Subscribable.notify on dataBox$
notifyDataBox(s, box) == [s EXCEPT !.pub = Append(@, box)]

\* scheduler(fn) of the throttle's options: rAFId = requestAnimationFrame(fn)
scheduler(s) == [s EXCEPT !.rafQueue = Append(@, "notifyDataBoxChanged")]

\* throttle(fn, 0, {scheduler}) of @callcc/toolkit-js, called with box: the
\* argument replaces the pending one, and one deferred call is scheduled
notifyDataBoxChanged(s, box) ==
    LET s1 == [s EXCEPT !.throttle = [pending |-> TRUE, args |-> [set |-> TRUE, box |-> box]]]
    IN  IF s.throttle.pending THEN s1 ELSE scheduler(s1)

\* the deferred call of the throttle, run by the animation frame
throttleFire(s) ==
    IF s.throttle.pending /\ s.throttle.args.set
    THEN notifyDataBox([s EXCEPT !.throttle = [pending |-> FALSE, args |-> NoArgs]],
                       s.throttle.args.box)
    ELSE s

\* the value of a snapshot: its two rectangles
Deref(h, box) == [inner |-> h[box.inner], outer |-> h[box.outer]]

\* the rectangle of inner in the coordinates of the page, not of outer
DOMRectReadOnly_Absolute(d) ==
    [x |-> d.inner.left, y |-> d.inner.top,
     width |-> width(d.inner), height |-> height(d.inner)]

\* new DOMRectReadOnly(inner.left - outer.left, inner.top - outer.top,
\* inner.width, inner.height)
DOMRectReadOnly(d) ==
    [x |-> d.inner.left - d.outer.left, y |-> d.inner.top - d.outer.top,
     width |-> width(d.inner), height |-> height(d.inner)]

\* a callback of the props is called
onStartProp(s, tgt) == [s EXCEPT !.cbs = Append(@, [name |-> "onStart", target |-> tgt])]

onDragProp(s, rect) == [s EXCEPT !.cbs = Append(@, [name |-> "onDrag", rect |-> rect])]

onEndProp(s, rect) == [s EXCEPT !.cbs = Append(@, [name |-> "onEnd", rect |-> rect])]

\* the listener broadcasting each move at once, unthrottled
CropOnEvent_Direct(s, evt) ==
    IF ~s.mounted THEN s
    ELSE IF evt.topic = "start" /\ props.onStart THEN onStartProp(s, evt.target)
    ELSE IF evt.topic = "move" /\ props.onDrag
    THEN notifyDataBox(
             [onDragProp(s, DOMRectReadOnly(Deref(s.heap, evt.box)))
                 EXCEPT !.handed = @ + 1],
             evt.box)
    ELSE IF evt.topic = "end" /\ props.onEnd
    THEN onEndProp(s, DOMRectReadOnly(Deref(s.heap, evt.box)))
    ELSE s

\* the listener calling onDrag only for a move that requests a frame
CropOnEvent_DragPerFrame(s, evt) ==
    IF ~s.mounted THEN s
    ELSE IF evt.topic = "start" /\ props.onStart THEN onStartProp(s, evt.target)
    ELSE IF evt.topic = "move" /\ props.onDrag
    THEN notifyDataBoxChanged(
             [(IF s.throttle.pending THEN s
               ELSE onDragProp(s, DOMRectReadOnly(Deref(s.heap, evt.box))))
                 EXCEPT !.handed = @ + 1],
             evt.box)
    ELSE IF evt.topic = "end" /\ props.onEnd
    THEN onEndProp(s, DOMRectReadOnly(Deref(s.heap, evt.box)))
    ELSE s

\* the listener Crop subscribes to events$, until the cleanup unsubscribes it
CropOnEvent(s, evt) ==
    IF ~s.mounted THEN s
    ELSE IF evt.topic = "start" /\ props.onStart THEN onStartProp(s, evt.target)
    ELSE IF evt.topic = "move" /\ props.onDrag
    THEN notifyDataBoxChanged(
             [onDragProp(s, DOMRectReadOnly(Deref(s.heap, evt.box)))
                 EXCEPT !.handed = @ + 1],
             evt.box)
    ELSE IF evt.topic = "end" /\ props.onEnd
    THEN onEndProp(s, DOMRectReadOnly(Deref(s.heap, evt.box)))
    ELSE s

\* Subscribable.notify on events$
notifyEvents(s, evt) == CropOnEvent([s EXCEPT !.out = Append(@, evt)], evt)

\* the engine calls of onMove stopping at the first edge the target names
dispatch_FirstEdge(box, tgt, pageX, pageY, dx, dy) ==
    IF tgt = "area" THEN moveY(moveX(box, dx), dy)
    ELSE IF includes(tgt, "left") THEN moveLeftLine(box, pageX)
    ELSE IF includes(tgt, "right") THEN moveRightLine(box, pageX)
    ELSE IF includes(tgt, "top") THEN moveTopLine(box, pageY)
    ELSE moveBottomLine(box, pageY)

\* Movement.onMove: the engine calls of the target
dispatch(box, tgt, pageX, pageY, dx, dy) ==
    IF tgt # "area"
    THEN LET b1 == IF includes(tgt, "left") THEN moveLeftLine(box, pageX) ELSE box
             b2 == IF includes(tgt, "right") THEN moveRightLine(b1, pageX) ELSE b1
             b3 == IF includes(tgt, "top") THEN moveTopLine(b2, pageY) ELSE b2
             b4 == IF includes(tgt, "bottom") THEN moveBottomLine(b3, pageY) ELSE b3
         IN  b4
    ELSE moveY(moveX(box, dx), dy)

\* onMove taking the snapshot of its "move" before it moves the engine
onMove_SnapshotFirst(s, tgt, pageX, pageY) ==
    LET d  == toDataBox(s)
        dx == pageX - s.lastPageX_
        dy == pageY - s.lastPageY_
        box == dispatch(Box(d.s.heap, s.nBox), tgt, pageX, pageY, dx, dy)
        s1 == [d.s EXCEPT !.lastPageX_ = pageX, !.lastPageY_ = pageY,
                          !.heap = Store(d.s.heap, s.nBox, box)]
        s2 == IF ~s1.moved_
              THEN notifyEvents([s1 EXCEPT !.moved_ = TRUE], StartEvent(tgt))
              ELSE s1
    IN  notifyEvents(s2, BoxEvent("move", d.box))

\* onMove measuring every delta from the drag-start position
onMove_FromStart(s, tgt, pageX, pageY) ==
    LET dx == pageX - s.lastPageX_
        dy == pageY - s.lastPageY_
        box == dispatch(Box(s.heap, s.nBox), tgt, pageX, pageY, dx, dy)
        s1 == [s EXCEPT !.heap = Store(s.heap, s.nBox, box)]
        s2 == IF ~s1.moved_
              THEN notifyEvents([s1 EXCEPT !.moved_ = TRUE],
                                StartEvent(tgt))
              ELSE s1
        d  == toDataBox(s2)
    IN  notifyEvents(d.s, BoxEvent("move", d.box))

\* Movement.onMove
onMove(s, tgt, pageX, pageY) ==
    LET dx == pageX - s.lastPageX_
        dy == pageY - s.lastPageY_
        box == dispatch(Box(s.heap, s.nBox), tgt, pageX, pageY, dx, dy)
        s1 == [s EXCEPT !.lastPageX_ = pageX, !.lastPageY_ = pageY,
                        !.heap = Store(s.heap, s.nBox, box)]
        s2 == IF ~s1.moved_
              THEN notifyEvents([s1 EXCEPT !.moved_ = TRUE],
                                StartEvent(tgt))
              ELSE s1
        d  == toDataBox(s2)
    IN  notifyEvents(d.s, BoxEvent("move", d.box))

\* onEnd notifying "end" whether or not the gesture moved
onEnd_AlwaysEnd(s) ==
    LET d == toDataBox(s)
    IN  [notifyEvents(d.s, BoxEvent("end", d.box)) EXCEPT !.moved_ = FALSE, !.target = ""]

\* onEnd leaving the target set
onEnd_KeepTarget(s) ==
    LET d  == toDataBox(s)
        s1 == IF s.moved_
              THEN notifyEvents(d.s, BoxEvent("end", d.box))
              ELSE s
    IN  [s1 EXCEPT !.moved_ = FALSE]

\* onEnd dropping the frame callback requested for the throttled broadcast
onEnd_CancelFrame(s) ==
    LET d  == toDataBox(s)
        s1 == IF s.moved_
              THEN notifyEvents(d.s, BoxEvent("end", d.box))
              ELSE s
    IN  [s1 EXCEPT !.moved_ = FALSE, !.target = "", !.rafQueue = <<>>,
                   !.throttle = [pending |-> FALSE, args |-> NoArgs]]

\* Movement.onEnd
onEnd(s) ==
    LET d  == toDataBox(s)
        s1 == IF s.moved_
              THEN notifyEvents(d.s, BoxEvent("end", d.box))
              ELSE s
    IN  [s1 EXCEPT !.moved_ = FALSE, !.target = ""]

\* the mousemove listener of a mouse gesture
mousemove(s, pageX, pageY) ==
    IF s.target = "" THEN s ELSE onMove(s, s.target, pageX, pageY)

\* the mouseup listener of a mouse gesture
mouseup(s) ==
    IF s.target = "" THEN s
    ELSE onEnd(removeEventListener(removeEventListener(s, "mousemove"), "mouseup"))

\* touchend forgetting the listener it attached for touchcancel
touchend_KeepListener(s) ==
    IF s.target = "" THEN s
    ELSE onEnd(removeEventListener(removeEventListener(removeEventListener(
               s, "touchstart"), "touchmove"), "touchend"))

\* the touchend listener of a touch gesture (also attached for touchcancel)
touchend(s) ==
    IF s.target = "" THEN s
    ELSE onEnd(removeEventListener(removeEventListener(removeEventListener(
               removeEventListener(s, "touchstart"), "touchmove"), "touchend"),
               "touchcancel"))

\* touchstart ignoring further touch points
touchstart_NoCancel(s, touches) == s

\* the touchstart listener of a touch gesture
touchstart(s, touches) ==
    IF touches > 1 /\ s.target # "" THEN touchend(s) ELSE s

\* the touchmove listener of a touch gesture
touchmove(s, touches, pageX, pageY) ==
    IF touches = 1 /\ s.target # "" THEN onMove(s, s.target, pageX, pageY) ELSE s

\* onStart without its "already started" return
onStart_NoGuard(s, type, tgt, pageX, pageY) ==
    LET s1 == [s EXCEPT !.target = tgt, !.lastPageX_ = pageX, !.lastPageY_ = pageY]
    IN  IF type = "mouse"
        THEN addEventListener(addEventListener(s1, "mousemove"), "mouseup")
        ELSE addEventListener(addEventListener(addEventListener(
             addEventListener(s1, "touchstart"), "touchmove"), "touchend"),
             "touchcancel")

\* Movement.onStart
onStart(s, type, tgt, pageX, pageY) ==
    IF s.target # "" THEN s
    ELSE LET s1 == [s EXCEPT !.target = tgt, !.lastPageX_ = pageX, !.lastPageY_ = pageY]
         IN  IF type = "mouse"
             THEN addEventListener(addEventListener(s1, "mousemove"), "mouseup")
             ELSE addEventListener(addEventListener(addEventListener(
                  addEventListener(s1, "touchstart"), "touchmove"), "touchend"),
                  "touchcancel")

\* a pointer-down on a CropHandle bubbles to the CropArea that contains it
onDragStart(s, type, elem, pageX, pageY) ==
    IF elem = "area"
    THEN onStart(s, type, "area", pageX, pageY)
    ELSE onStart(onStart(s, type, elem, pageX, pageY), type, "area", pageX, pageY)

\* equal comparing the right and bottom edges only
equal_RightBottom(a, b) == a.right = b.right /\ a.bottom = b.bottom

\* DataRect.equal
equal(a, b) ==
    a.left = b.left /\ a.top = b.top /\ a.right = b.right /\ a.bottom = b.bottom

\* the ResizeObserver callback forgetting the gesture when it replaces the engine
onResize_EndsGesture(s, rect) ==
    IF equal(s.heap[s.nBox.outer], rect) THEN s
    ELSE LET n  == NewBox(s.heap, ClampBox(rect.left, rect.top, rect.right, rect.bottom,
                                          props.minWidth, props.minHeight, props.initialRect))
             s1 == [s EXCEPT !.heap = n.heap, !.nBox = n.nBox, !.target = "",
                             !.given = [minWidth |-> props.minWidth,
                                        minHeight |-> props.minHeight]]
             d  == toDataBox(s1)
         IN  IF props.initialRect.given THEN notifyDataBox(d.s, d.box) ELSE s1

\* the ResizeObserver callback of Crop
onResize(s, rect) ==
    IF equal(s.heap[s.nBox.outer], rect) THEN s
    ELSE LET n  == NewBox(s.heap, ClampBox(rect.left, rect.top, rect.right, rect.bottom,
                                          props.minWidth, props.minHeight, props.initialRect))
             s1 == [s EXCEPT !.heap = n.heap, !.nBox = n.nBox,
                             !.given = [minWidth |-> props.minWidth,
                                        minHeight |-> props.minHeight]]
             d  == toDataBox(s1)
         IN  IF props.initialRect.given THEN notifyDataBox(d.s, d.box) ELSE s1

(***************************************************************************)
(* Steps: a handler's result becomes the next state. Objects nothing       *)
(* refers to any more are collected and the rest renumbered in the order   *)
(* of the references to them, identities having no meaning but equality.   *)
(***************************************************************************)
RECURSIVE BoxRefs(_)
BoxRefs(boxes) ==
    IF boxes = <<>> THEN <<>>
    ELSE <<Head(boxes).inner, Head(boxes).outer>> \o BoxRefs(Tail(boxes))

RECURSIVE EventBoxes(_)
EventBoxes(evts) ==
    IF evts = <<>> THEN <<>>
    ELSE (IF Head(evts).topic = "start" THEN <<>> ELSE <<Head(evts).box>>)
         \o EventBoxes(Tail(evts))

Roots(s) ==
    <<s.nBox.inner, s.nBox.outer>>
    \o (IF s.throttle.args.set THEN BoxRefs(<<s.throttle.args.box>>) ELSE <<>>)
    \o BoxRefs(EventBoxes(s.out)) \o BoxRefs(s.pub)
    \o (IF s.kept.set THEN BoxRefs(<<s.kept.box>>) ELSE <<>>)

Rename(R, ref) ==
    LET first == CHOOSE k \in 1..Len(R) : R[k] = ref /\ \A j \in 1..(k - 1) : R[j] # ref
    IN  Cardinality({R[j] : j \in 1..first})

RenameBox(R, box) == [inner |-> Rename(R, box.inner), outer |-> Rename(R, box.outer)]

Collect(s) ==
    LET R    == Roots(s)
        live == {R[k] : k \in 1..Len(R)}
    IN  [s EXCEPT
            !.heap = [i \in {Rename(R, r) : r \in live} |->
                         s.heap[CHOOSE r \in live : Rename(R, r) = i]],
            !.nBox = [@ EXCEPT !.inner = Rename(R, @), !.outer = Rename(R, @)],
            !.throttle = IF s.throttle.args.set
                         THEN [@ EXCEPT !.args.box = RenameBox(R, @)]
                         ELSE @,
            !.out = [k \in 1..Len(s.out) |->
                        IF s.out[k].topic = "start" THEN s.out[k]
                        ELSE [s.out[k] EXCEPT !.box = RenameBox(R, @)]],
            !.pub = [k \in 1..Len(s.pub) |-> RenameBox(R, s.pub[k])],
            !.kept = IF s.kept.set THEN [@ EXCEPT !.box = RenameBox(R, @)] ELSE @]

\* the topics of evts appended to l, a run of "move" kept as one
RECURSIVE Logged(_, _)
Logged(l, evts) ==
    IF evts = <<>> THEN l
    ELSE LET tp == Head(evts).topic
         IN  Logged(IF tp = "move" /\ l # <<>> /\ l[Len(l)] = "move" THEN l ELSE Append(l, tp),
                    Tail(evts))

\* the moves handed to the throttle since the last frame that ran with some
\* handed, and the engine as the last of them left it; a frame closes the count
Observed(s, op) ==
    IF s.handed > 0
    THEN [moves |-> Min(MaxBurst, (IF window.closed THEN 0 ELSE window.moves) + s.handed),
          closed |-> FALSE,
          last |-> [set |-> TRUE, box |-> Deref(s.heap, s.nBox)]]
    ELSE IF op = "frame"
    THEN IF window.closed THEN [moves |-> 0, closed |-> TRUE, last |-> [set |-> FALSE]]
         ELSE [window EXCEPT !.closed = TRUE]
    ELSE window

Commit(s0, op, arg) ==
    \E s \in {Collect(s0)} :
        /\ heap' = s.heap
        /\ nBox' = s.nBox
        /\ given' = s.given
        /\ target' = s.target
        /\ lastPageX_' = s.lastPageX_
        /\ lastPageY_' = s.lastPageY_
        /\ moved_' = s.moved_
        /\ listeners' = s.listeners
        /\ throttle' = s.throttle
        /\ rafQueue' = s.rafQueue
        /\ out' = s.out
        /\ pub' = s.pub
        /\ cbs' = s.cbs
        /\ kept' = s.kept
        /\ mounted' = s.mounted
        /\ window' = Observed(s, op)
        /\ log' = Logged(IF target = "" /\ s.target # "" THEN <<>> ELSE log, s.out)
        /\ call' = [op |-> op, arg |-> arg]
        /\ UNCHANGED <<props, channel>>

\* the document dispatches an event to each listener attached for its type
listener(s, type, touches, pageX, pageY) ==
    CASE type = "mousemove"   -> mousemove(s, pageX, pageY)
      [] type = "mouseup"     -> mouseup(s)
      [] type = "touchstart"  -> touchstart(s, touches)
      [] type = "touchmove"   -> touchmove(s, touches, pageX, pageY)
      [] type = "touchend"    -> touchend(s)
      [] type = "touchcancel" -> touchend(s)

RECURSIVE dispatchEvent(_, _, _, _, _, _)
dispatchEvent(s, type, touches, pageX, pageY, n) ==
    IF n = 0 THEN s
    ELSE dispatchEvent(listener(s, type, touches, pageX, pageY),
                       type, touches, pageX, pageY, n - 1)

document(s, type, touches, pageX, pageY) ==
    dispatchEvent(s, type, touches, pageX, pageY, s.listeners[type])

\* the animation frame runs the callbacks requested before it
RECURSIVE runFrame(_, _)
runFrame(s, queue) ==
    IF queue = <<>> THEN s ELSE runFrame(throttleFire(s), Tail(queue))

(***************************************************************************)
(* The Crop component: input events, layout observations, frames           *)
(***************************************************************************)
\* pointer positions (pageX, pageY): inside the observed layouts and outside
Points == {<<1, 1>>, <<3, 0>>}

\* the elements a pointer can go down on
Elements == {"left", "right-bottom", "area"}

\* the layouts the ResizeObserver reports
ResizeRects == {DataRect(0, 0, 2, 1), DataRect(1, 0, 2, 1)}

\* the props Crop is mounted with: an initialRect or none, and the callbacks
\* onStart, onDrag and onEnd supplied or not
PropsSet ==
    {[minWidth |-> 1, minHeight |-> 1, initialRect |-> off,
      onStart |-> d, onDrag |-> d, onEnd |-> d] :
        off \in {NoOffset, Offset(50, 0, 50, 100, "%")}, d \in BOOLEAN}

Mounted(p) ==
    LET n == NewBox(EmptyHeap, ClampBox(0, 0, 0, 0, 0, 0, NoOffset))
    IN  /\ heap = n.heap
        /\ nBox = n.nBox
        /\ given = [minWidth |-> 0, minHeight |-> 0]
        /\ call = [op |-> "new", arg |-> 0]
        /\ target = ""
        /\ lastPageX_ = 0
        /\ lastPageY_ = 0
        /\ moved_ = FALSE
        /\ listeners = NoListeners
        /\ throttle = [pending |-> FALSE, args |-> NoArgs]
        /\ rafQueue = <<>>
        /\ props = p
        /\ out = <<>>
        /\ pub = <<>>
        /\ cbs = <<>>
        /\ log = <<>>
        /\ window = NoWindow
        /\ kept = NoArgs
        /\ mounted = TRUE
        /\ channel = NewChannel(<<>>)

InitDrag == \E p \in PropsSet : Mounted(p)

MouseDown ==
    /\ mounted
    /\ \E elem \in Elements, p \in Points :
        Commit(onDragStart(State, "mouse", elem, p[1], p[2]), "mousedown",
               [pageX |-> p[1], pageY |-> p[2]])

\* a touch goes down, on an element or elsewhere, as the touches-th touch point
TouchStart ==
    \E elem \in Elements \cup {"outside"}, touches \in 1..2, p \in Points :
        LET s1 == IF mounted /\ elem # "outside" /\ touches = 1
                  THEN onDragStart(State, "touch", elem, p[1], p[2])
                  ELSE State
        IN  Commit(document(s1, "touchstart", touches, p[1], p[2]), "touchstart", touches)

MouseMove ==
    \E p \in Points :
        Commit(document(State, "mousemove", 0, p[1], p[2]), "mousemove",
               [pageX |-> p[1], pageY |-> p[2]])

MouseUp == Commit(document(State, "mouseup", 0, 0, 0), "mouseup", 0)

TouchMove ==
    \E touches \in 1..2, p \in Points :
        Commit(document(State, "touchmove", touches, p[1], p[2]), "touchmove",
               [touches |-> touches, pageX |-> p[1], pageY |-> p[2]])

TouchEnd == Commit(document(State, "touchend", 0, 0, 0), "touchend", 0)

TouchCancel == Commit(document(State, "touchcancel", 0, 0, 0), "touchcancel", 0)

Resize ==
    /\ mounted
    /\ \E rect \in ResizeRects : Commit(onResize(State, rect), "resize", rect)

AnimationFrame ==
    Commit(runFrame([State EXCEPT !.rafQueue = <<>>], rafQueue), "frame", 0)

NextDrag ==
    \/ MouseDown
    \/ TouchStart
    \/ MouseMove
    \/ MouseUp
    \/ TouchMove
    \/ TouchEnd
    \/ TouchCancel
    \/ Resize
    \/ AnimationFrame

SpecDrag == InitDrag /\ [][NextDrag]_vars

(***************************************************************************)
(* A subscriber that keeps a snapshot it was handed, and writes to it      *)
(***************************************************************************)
\* the snapshots the last step delivered, on events$ and on dataBox$
Delivered == EventBoxes(out) \o pub

\* a subscriber keeps a reference to a snapshot it has just been handed, once
Keep ==
    /\ ~kept.set
    /\ \E k \in 1..Len(Delivered) :
        Commit([State EXCEPT !.kept = [set |-> TRUE, box |-> Delivered[k]]], "keep", 0)

\* the subscriber assigns to a field of a rectangle of the snapshot it kept
ConsumerWrite ==
    /\ kept.set
    /\ \E rect \in {"inner", "outer"} :
           Commit([State EXCEPT !.heap[kept.box[rect]].left = -1], "write", 0)

InitIso ==
    Mounted([minWidth |-> 1, minHeight |-> 1,
             initialRect |-> Offset(50, 0, 50, 100, "%"),
             onStart |-> TRUE, onDrag |-> TRUE, onEnd |-> TRUE])

NextIso ==
    \/ MouseDown
    \/ MouseMove
    \/ MouseUp
    \/ Resize
    \/ AnimationFrame
    \/ Keep
    \/ ConsumerWrite

SpecIso == InitIso /\ [][NextIso]_vars

(***************************************************************************)
(* Crop is unmounted: the cleanups of its effect and of its ref run        *)
(***************************************************************************)
\* the cleanup of the layout effect unsubscribes Crop from events$, and the
\* cleanup of the ref callback stops the ResizeObserver
Teardown ==
    /\ mounted
    /\ Commit([State EXCEPT !.mounted = FALSE], "teardown", 0)

NextUnmount ==
    \/ MouseDown
    \/ MouseMove
    \/ MouseUp
    \/ Resize
    \/ AnimationFrame
    \/ Teardown

SpecUnmount == InitIso /\ [][NextUnmount]_vars

(***************************************************************************)
(* Crop laid out with room in both directions, and mouse gestures on each  *)
(* of the handles and on the area                                          *)
(***************************************************************************)
\* pointer positions: inside the box, on its right and on its bottom edge,
\* and off it
Positions == {<<1, 1>>, <<MaxCoord, 1>>, <<1, MaxCoord>>, <<-1, -1>>}

\* Crop mounted, with its callback props supplied or not, and its first
\* layout observed: the engine spans the layout
Laid(callbacks) ==
    \E mw \in {1} :
    \E mh \in {mw} :
    \E n \in {NewBox(EmptyHeap, ClampBox(0, 0, MaxCoord, MaxCoord, mw, mh, NoOffset))} :
        /\ heap = n.heap
        /\ nBox = n.nBox
        /\ given = [minWidth |-> mw, minHeight |-> mh]
        /\ call = [op |-> "resize", arg |-> DataRect(0, 0, MaxCoord, MaxCoord)]
        /\ target = ""
        /\ lastPageX_ = 0
        /\ lastPageY_ = 0
        /\ moved_ = FALSE
        /\ listeners = NoListeners
        /\ throttle = [pending |-> FALSE, args |-> NoArgs]
        /\ rafQueue = <<>>
        /\ props = [minWidth |-> mw, minHeight |-> mh, initialRect |-> NoOffset,
                    onStart |-> callbacks, onDrag |-> callbacks,
                    onEnd |-> callbacks]
        /\ out = <<>>
        /\ pub = <<>>
        /\ cbs = <<>>
        /\ log = <<>>
        /\ window = NoWindow
        /\ kept = NoArgs
        /\ mounted = TRUE
        /\ channel = NewChannel(<<>>)

\* Crop mounted with its callback props
InitMove == Laid(TRUE)

\* the mouse button goes down, while it is up
PointerDown ==
    /\ target = ""
    /\ \E elem \in Directions \cup {"area"}, p \in Positions :
        Commit(onDragStart(State, "mouse", elem, p[1], p[2]), "mousedown",
               [elem |-> elem, pageX |-> p[1], pageY |-> p[2]])

PointerMove ==
    \E p \in Positions :
        Commit(document(State, "mousemove", 0, p[1], p[2]), "mousemove",
               [pageX |-> p[1], pageY |-> p[2]])

PointerUp == Commit(document(State, "mouseup", 0, 0, 0), "mouseup", 0)

NextMove ==
    \/ PointerDown
    \/ PointerMove
    \/ PointerUp
    \/ AnimationFrame

SpecMove == InitMove /\ [][NextMove]_vars

\* Crop mounted with its callback props or without them
InitMoveAny == \E callbacks \in BOOLEAN : Laid(callbacks)

SpecMoveAny == InitMoveAny /\ [][NextMove]_vars

(***************************************************************************)
(* A Subscribable on its own, with listeners that use it re-entrantly      *)
(***************************************************************************)
InitChannel ==
    \E sa \in Scripts :
        /\ channel = NewChannel(sa)
        /\ \E n \in {NewBox(EmptyHeap, ClampBox(0, 0, 0, 0, 0, 0, NoOffset))} :
               heap = n.heap /\ nBox = n.nBox
        /\ given = [minWidth |-> 0, minHeight |-> 0]
        /\ call = [op |-> "new", arg |-> 0]
        /\ target = ""
        /\ lastPageX_ = 0
        /\ lastPageY_ = 0
        /\ moved_ = FALSE
        /\ listeners = NoListeners
        /\ throttle = [pending |-> FALSE, args |-> NoArgs]
        /\ rafQueue = <<>>
        /\ props = [minWidth |-> 0, minHeight |-> 0, initialRect |-> NoOffset,
                    onStart |-> FALSE, onDrag |-> FALSE, onEnd |-> FALSE]
        /\ out = <<>>
        /\ pub = <<>>
        /\ cbs = <<>>
        /\ log = <<>>
        /\ window = NoWindow
        /\ kept = NoArgs
        /\ mounted = TRUE

\* the channel as a call finds it: nothing delivered, subscribed or
\* unsubscribed yet by this call
Begin ==
    [channel EXCEPT !.got = [l \in Listeners |-> <<>>], !.added = {}, !.removed = {},
                    !.overrun = FALSE]

\* a call on the channel returns
Return(c, op, arg) ==
    /\ channel' = [c EXCEPT !.listeners_ = Compact(@)]
    /\ call' = [op |-> op, arg |-> arg]
    /\ UNCHANGED <<heap, nBox, given, target, lastPageX_, lastPageY_, moved_, listeners,
                   throttle, rafQueue, props, out, pub, cbs, log, window, kept,
                   mounted>>

Subscribe ==
    \E l \in Listeners :
        /\ channel.handles[l].fresh < MaxHandles
        /\ Return(subscribe(Begin, l), "subscribe", [listener |-> l, again |-> FALSE])

\* an unsubscribe function is called: one not called before, or one called before
Unsubscribe ==
    \E l \in Listeners, again \in BOOLEAN :
        /\ IF again THEN channel.handles[l].used ELSE channel.handles[l].fresh > 0
        /\ Return(unsubscribe(Begin, l, again), "unsubscribe",
                  [listener |-> l, again |-> again])

Notify == \E v \in Values : Return(notify(Begin, v), "notify", v)

NextChannel ==
    \/ Subscribe
    \/ Unsubscribe
    \/ Notify

SpecChannel == InitChannel /\ [][NextChannel]_vars

(***************************************************************************)
(* The engine on its own: any construction, then any sequence of calls     *)
(***************************************************************************)
Offsets ==
    {NoOffset}
    \cup {Offset(l, t, w, h, "px") : l \in PxVals, t \in PxVals, w \in PxVals, h \in PxVals}
    \cup {Offset(l, t, w, h, "%") : l \in PctVals, t \in PctVals, w \in PctVals, h \in PctVals}

\* translations: none, one step, and further than any box is wide
Deltas == {-(MaxCoord + 1), -1, 0, 1, MaxCoord + 1}

Init ==
    \E l \in 0..1 :
    \E t \in {l} :
    \E r \in l..MaxCoord, b \in t..MaxCoord :
    \E mw \in MinArgs, mh \in MinArgs :
    \E off \in Offsets :
        LET n == NewBox(EmptyHeap, ClampBox(l, t, r, b, mw, mh, off))
        IN  /\ heap = n.heap
            /\ nBox = n.nBox
            /\ given = [minWidth |-> mw, minHeight |-> mh]
            /\ call = [op |-> "new", arg |-> 0]
            /\ target = ""
            /\ lastPageX_ = 0
            /\ lastPageY_ = 0
            /\ moved_ = FALSE
            /\ listeners = NoListeners
            /\ throttle = [pending |-> FALSE, args |-> NoArgs]
            /\ rafQueue = <<>>
            /\ props = [minWidth |-> 0, minHeight |-> 0, initialRect |-> NoOffset,
                        onStart |-> FALSE, onDrag |-> FALSE, onEnd |-> FALSE]
            /\ out = <<>>
            /\ pub = <<>>
            /\ cbs = <<>>
            /\ log = <<>>
            /\ window = NoWindow
            /\ kept = NoArgs
            /\ mounted = TRUE
            /\ channel = NewChannel(<<>>)

Call(op, arg, box) ==
    /\ heap' = Store(heap, nBox, box)
    /\ call' = [op |-> op, arg |-> arg]
    /\ UNCHANGED <<nBox, given, target, lastPageX_, lastPageY_, moved_, listeners,
                   throttle, rafQueue, props, out, pub, cbs, log, window, kept,
                   mounted, channel>>

MoveLeftLine == \E x \in Args : Call("moveLeftLine", x, moveLeftLine(Box(heap, nBox), x))

MoveTopLine == \E y \in Args : Call("moveTopLine", y, moveTopLine(Box(heap, nBox), y))

MoveRightLine == \E x \in Args : Call("moveRightLine", x, moveRightLine(Box(heap, nBox), x))

MoveBottomLine == \E y \in Args : Call("moveBottomLine", y, moveBottomLine(Box(heap, nBox), y))

MoveX == \E dx \in Deltas : Call("moveX", dx, moveX(Box(heap, nBox), dx))

MoveY == \E dy \in Deltas : Call("moveY", dy, moveY(Box(heap, nBox), dy))

Next ==
    \/ MoveLeftLine
    \/ MoveTopLine
    \/ MoveRightLine
    \/ MoveBottomLine
    \/ MoveX
    \/ MoveY

Spec == Init /\ [][Next]_vars

(***************************************************************************)
(* The constraint engine                                                   *)
(***************************************************************************)
\* C1: after construction (any outer with left <= right and top <= bottom,
\* any minimums, any or no offset) and after every edge-move and translation,
\* whatever its argument, inner lies inside outer and is not inverted.
Containment ==
    /\ Outer.left <= Inner.left
    /\ Inner.left <= Inner.right
    /\ Inner.right <= Outer.right
    /\ Outer.top <= Inner.top
    /\ Inner.top <= Inner.bottom
    /\ Inner.bottom <= Outer.bottom

\* a translation further than the box is wide has been cut short at the right edge
ContainmentWitness ==
    /\ call.op = "moveX"
    /\ call.arg = MaxCoord + 1
    /\ Inner.right = Outer.right
    /\ Inner.left > Outer.left

\* C2: in every reachable state inner is at least as wide as the smaller of
\* the minWidth passed to the constructor and the outer width, and at least
\* as high as the smaller of the minHeight passed and the outer height.
MinimumSize ==
    /\ width(Inner) >= Min(given.minWidth, width(Outer))
    /\ height(Inner) >= Min(given.minHeight, height(Outer))

\* the left edge was asked to pass the right one and stopped minWidth short of it
MinimumSizeWitness ==
    /\ call.op = "moveLeftLine"
    /\ call.arg > Inner.left
    /\ given.minWidth = 1
    /\ width(Outer) = 2
    /\ width(Inner) = 1

(***************************************************************************)
(* The gesture machine                                                     *)
(***************************************************************************)
\* the topics of a sequence of events$ notifications
Topics(evts) == [k \in 1..Len(evts) |-> evts[k].topic]

\* the listeners of a mouse gesture, and of a touch gesture
MouseListeners == [e \in EventTypes |-> IF e \in {"mousemove", "mouseup"} THEN 1 ELSE 0]

TouchListeners == [e \in EventTypes |-> IF e \in {"mousemove", "mouseup"} THEN 0 ELSE 1]

\* the step is a release event the active gesture listens to
OwnRelease ==
    /\ target # ""
    /\ call'.op \in {"mouseup", "touchend", "touchcancel"}
    /\ listeners[call'.op] > 0

\* the step is a touch-start with more than one touch point during a touch gesture
SecondTouch ==
    /\ target # ""
    /\ listeners["touchstart"] > 0
    /\ call'.op = "touchstart"
    /\ call'.arg > 1

\* C3: a drag-start (a mouse-down, or a touch-start with one touch point, on a
\* handle or the area) while a target is active leaves the target, the last
\* pointer position, the moved flag and the attached listeners unchanged; a
\* mouse-down in Idle takes effect: it sets the target and attaches listeners.
SingleActiveGesture ==
    [][(call'.op = "mousedown" \/ (call'.op = "touchstart" /\ call'.arg = 1))
        => IF target # ""
           THEN /\ target' = target
                /\ lastPageX_' = lastPageX_
                /\ lastPageY_' = lastPageY_
                /\ moved_' = moved_
                /\ listeners' = listeners
           ELSE call'.op = "mousedown"
                    => target' # "" /\ listeners' = MouseListeners]_vars

\* a mouse-down arrived in a gesture that had already moved, and the gesture goes on
SingleActiveGestureWitness ==
    /\ call.op = "mousedown"
    /\ moved_
    /\ target = "left"
    /\ listeners = MouseListeners

\* C4: the notifications of a gesture are "start", then one or more "move",
\* then at most one "end" as the last; a step notifies nothing, or "start" and
\* "move", or "move", or "end"; a gesture that ended has notified nothing or
\* has notified "end" last, and a gesture going on has not notified "end".
LazyStartOrdering ==
    /\ \/ log = <<>>
       \/ /\ Len(log) >= 2
          /\ log[1] = "start"
          /\ log[2] = "move"
          /\ \A k \in 3..Len(log) : k = Len(log) /\ log[k] = "end"
    /\ Topics(out) \in {<<>>, <<"start", "move">>, <<"move">>, <<"end">>}
    /\ Topics(out) = <<"start", "move">> => log = <<"start", "move">>
    /\ target = "" => log = <<>> \/ log[Len(log)] = "end"
    /\ target # "" => log = <<>> \/ log[Len(log)] = "move"
    /\ moved_ <=> target # "" /\ log # <<>>

\* a gesture that moved has been released: start, move, end
LazyStartOrderingWitness ==
    /\ call.op = "mouseup"
    /\ log = <<"start", "move", "end">>
    /\ Topics(out) = <<"end">>

\* C5 as stated: any pointer-up, touch-end or touch-cancel while Dragging
\* returns the machine to Idle, with one "end" iff the gesture moved.
ReleaseAnyInput ==
    [][(target # "" /\ call'.op \in {"mouseup", "touchend", "touchcancel"})
        => /\ target' = ""
           /\ ~moved_'
           /\ IF log # <<>>
              THEN /\ Topics(out') = <<"end">>
                   /\ Deref(heap', out'[1].box) = Deref(heap, nBox)
              ELSE out' = <<>>]_vars

\* C5: a release event of the gesture's own input kind (pointer-up of a mouse
\* gesture, touch-end or touch-cancel of a touch gesture) returns the machine
\* to Idle, target empty and moved flag cleared; it notifies exactly one "end"
\* iff a pointer-move was processed in the gesture, and the payload is the
\* engine's inner and outer at the release, which the release leaves as they are.
Release ==
    [][OwnRelease
        => /\ target' = ""
           /\ ~moved_'
           /\ Deref(heap', nBox') = Deref(heap, nBox)
           /\ IF log # <<>>
              THEN /\ Topics(out') = <<"end">>
                   /\ Deref(heap', out'[1].box) = Deref(heap, nBox)
              ELSE out' = <<>>]_vars

\* a touch gesture that moved the box was cancelled, and "end" carries the box
ReleaseWitness ==
    /\ call.op = "touchcancel"
    /\ target = ""
    /\ ~moved_
    /\ Topics(out) = <<"end">>
    /\ Deref(heap, out[1].box) = Deref(heap, nBox)
    /\ log = <<"start", "move", "end">>

\* C6 as stated: a touch-start with more than one touch point during a touch
\* gesture notifies exactly one "end" and returns the machine to Idle.
MultiTouchAbortOneEnd ==
    [][SecondTouch => Topics(out') = <<"end">> /\ target' = ""]_vars

\* C6: a touch-start with more than one touch point during a touch gesture
\* returns the machine to Idle and notifies exactly one "end" if a touch-move
\* was processed in the gesture, nothing otherwise; and no "move" is notified
\* by a step taken in Idle, so none follows until a new drag-start.
MultiTouchAbort ==
    [][/\ SecondTouch
           => /\ target' = ""
              /\ ~moved_'
              /\ Topics(out') = (IF log # <<>> THEN <<"end">> ELSE <<>>)
       /\ target = "" => \A k \in 1..Len(out') : out'[k].topic # "move"]_vars

\* a second touch point ended a touch gesture that had moved
MultiTouchAbortWitness ==
    /\ call.op = "touchstart"
    /\ call.arg = 2
    /\ target = ""
    /\ Topics(out) = <<"end">>

\* C7: no listener is attached in Idle, and while Dragging exactly the
\* listeners of the gesture's input kind are attached, each once.
ListenerLifecycle ==
    /\ target = "" => listeners = NoListeners
    /\ target # "" => listeners \in {MouseListeners, TouchListeners}

\* a forced multi-touch cancellation has detached every listener
ListenerLifecycleWitness ==
    /\ call.op = "touchstart"
    /\ call.arg = 2
    /\ log # <<>>
    /\ target = ""
    /\ listeners = NoListeners

(***************************************************************************)
(* The throttled broadcast                                                 *)
(***************************************************************************)
\* C9: at most one deferred broadcast is requested at any time; a pointer-move
\* notifies nothing on dataBox$ itself, and the frame that follows any number
\* of pointer-moves notifies at most once.
FrameCoalescingCount ==
    /\ Len(rafQueue) <= 1
    /\ call.op \in {"mousemove", "touchmove"} => pub = <<>>
    /\ call.op = "frame" => Len(pub) <= 1

\* a frame has run after two pointer-moves and notified once
FrameCoalescingCountWitness ==
    /\ call.op = "frame"
    /\ window.closed
    /\ window.moves = 2
    /\ Len(pub) = 1

\* C10: the frame that follows one or more pointer-moves handed to the
\* throttle notifies one snapshot, whose value is the engine's inner and outer
\* as the last of those pointer-moves left them.
FrameCoalescingPayload ==
    (call.op = "frame" /\ window.closed /\ window.moves >= 1)
        => Len(pub) = 1 /\ Deref(heap, pub[1]) = window.last.box

\* a frame after two moves of a handle carries the engine as the second left it
FrameCoalescingPayloadWitness ==
    /\ call.op = "frame"
    /\ window.closed
    /\ window.moves = 2
    /\ target = "right-bottom"
    /\ pub # <<>>
    /\ Deref(heap, pub[1]) = Deref(heap, nBox)
    /\ heap[nBox.inner].right = heap[nBox.outer].right

(***************************************************************************)
(* Snapshots                                                               *)
(***************************************************************************)
\* the objects a delivered or kept snapshot refers to
SnapshotRefs ==
    {r \in DOMAIN heap :
        \/ \E k \in 1..Len(Delivered) : r \in {Delivered[k].inner, Delivered[k].outer}
        \/ kept.set /\ r \in {kept.box.inner, kept.box.outer}}

\* C8: no snapshot delivered on events$ or dataBox$, or kept by a subscriber,
\* refers to a rectangle of the engine; a write to a field of a kept snapshot
\* leaves the engine's inner and outer as they are; and every other step, the
\* engine's moves and replacement among them, leaves a kept snapshot's value
\* as it is.
SnapshotIsolation ==
    /\ [](SnapshotRefs \cap {nBox.inner, nBox.outer} = {})
    /\ [][call'.op = "write" => Deref(heap', nBox') = Deref(heap, nBox)]_vars
    /\ [][(kept.set /\ call'.op \notin {"write", "keep"})
            => kept'.set /\ Deref(heap', kept'.box) = Deref(heap, kept.box)]_vars

\* the engine has moved on from a snapshot kept from a "move", and the
\* snapshot, written to since, shows it
SnapshotIsolationWitness ==
    /\ kept.set
    /\ call.op = "mousemove"
    /\ heap[kept.box.inner].left = -1
    /\ heap[kept.box.inner].right # heap[nBox.inner].right
    /\ heap[nBox.inner].left >= 0

(***************************************************************************)
(* The frame requested for the throttled broadcast, and the gesture's end  *)
(***************************************************************************)
\* the step ends the active gesture: its own release event, or a second touch point
GestureEnd == OwnRelease \/ SecondTouch

\* C11 as stated: the step that ends a gesture cancels the frame callback
\* requested for the throttled broadcast.
ReleaseCancelsFrame ==
    [][GestureEnd => rafQueue' = <<>> /\ ~throttle'.pending]_vars

\* C11: the step that ends a gesture leaves the requested frame callback and
\* the snapshot pending in the throttle as they are, and a frame that runs
\* with a snapshot pending notifies it on dataBox$, Dragging or not.
ReleaseKeepsFrame ==
    [][/\ GestureEnd
           => /\ rafQueue' = rafQueue
              /\ throttle'.pending = throttle.pending
              /\ throttle.pending
                    => Deref(heap', throttle'.args.box) = Deref(heap, throttle.args.box)
       /\ (call'.op = "frame" /\ throttle.pending /\ rafQueue # <<>>)
           => /\ Len(pub') = 1
              /\ Deref(heap', pub'[1]) = Deref(heap, throttle.args.box)]_vars

\* a gesture moved and was released, and the frame after the release notified
\* the snapshot that was pending at the release
ReleaseKeepsFrameWitness ==
    /\ call.op = "frame"
    /\ target = ""
    /\ log = <<"start", "move", "end">>
    /\ Len(pub) = 1
    /\ window.closed
    /\ window.moves >= 1
    /\ window.last.set
    /\ Deref(heap, pub[1]) = window.last.box

(***************************************************************************)
(* Teardown                                                                *)
(***************************************************************************)
\* C12: once the cleanup of Crop's layout effect has run, no step notifies
\* on dataBox$.
NoBroadcastAfterTeardown == ~mounted => pub = <<>>

(***************************************************************************)
(* The constraint engine: minimums, translation, edge moves, offset        *)
(***************************************************************************)
\* C13: whatever minWidth and minHeight are passed to the constructor, the
\* stored minWidth lies in [0, outer.width] and the stored minHeight in
\* [0, outer.height].
StoredMinimums ==
    /\ 0 <= nBox.minWidth
    /\ nBox.minWidth <= width(Outer)
    /\ 0 <= nBox.minHeight
    /\ nBox.minHeight <= height(Outer)

\* constructed with a minimum width above the outer width and a negative
\* minimum height
StoredMinimumsWitness ==
    /\ call.op = "new"
    /\ given.minWidth = MaxCoord + 1
    /\ given.minHeight = -1
    /\ width(Outer) > 0
    /\ nBox.minWidth = width(Outer)
    /\ nBox.minHeight = 0

\* the delta a translation by d may apply, with room lo <= 0 <= hi
Applied(d, lo, hi) == IF d > 0 THEN Min(d, hi) ELSE IF d < 0 THEN Max(d, lo) ELSE 0

\* C14: moveX(dx) shifts inner.left and inner.right by the same d, with
\* d = min(dx, outer.right - inner.right) for dx > 0, d = max(dx, outer.left -
\* inner.left) for dx < 0 and d = 0 for dx = 0, so d has the sign of dx or is
\* 0 and |d| <= |dx|; it leaves inner's width, top and bottom and the outer
\* box as they are. moveY likewise, on top and bottom.
TranslationClamping ==
    [][/\ call'.op = "moveX"
           => LET dx == call'.arg
                  d  == Inner'.left - Inner.left
              IN  /\ Inner'.right - Inner.right = d
                  /\ d = Applied(dx, Outer.left - Inner.left, Outer.right - Inner.right)
                  /\ d * dx >= 0
                  /\ d * d <= dx * dx
                  /\ dx = 0 => heap' = heap
                  /\ Inner'.top = Inner.top
                  /\ Inner'.bottom = Inner.bottom
                  /\ width(Inner') = width(Inner)
                  /\ Outer' = Outer
       /\ call'.op = "moveY"
           => LET dy == call'.arg
                  d  == Inner'.top - Inner.top
              IN  /\ Inner'.bottom - Inner.bottom = d
                  /\ d = Applied(dy, Outer.top - Inner.top, Outer.bottom - Inner.bottom)
                  /\ d * dy >= 0
                  /\ d * d <= dy * dy
                  /\ dy = 0 => heap' = heap
                  /\ Inner'.left = Inner.left
                  /\ Inner'.right = Inner.right
                  /\ height(Inner') = height(Inner)
                  /\ Outer' = Outer]_vars

\* a translation up, further than the box is high, stopped at the outer top
TranslationClampingWitness ==
    /\ call.op = "moveY"
    /\ call.arg = -(MaxCoord + 1)
    /\ Inner.top = Outer.top
    /\ Inner.bottom < Outer.bottom
    /\ height(Inner) > 0

\* moveX(dx) then moveX(-dx), from the engine as it is
RoundTrip(dx) == moveX(moveX(Box(heap, nBox), dx), -dx)

\* moveX(dx) from the engine as it is, and moveX(-dx) after it, apply all of dx
Unclamped(dx) ==
    LET b1 == moveX(Box(heap, nBox), dx)
    IN  /\ b1.inner.left - Inner.left = dx
        /\ RoundTrip(dx).inner.left - b1.inner.left = -dx

\* C15 as stated: the round trip restores inner only if neither call was
\* clamped, and does restore it if neither was.
RoundTripOnlyIfUnclamped ==
    \A dx \in Deltas :
        /\ RoundTrip(dx).inner = Inner => Unclamped(dx)
        /\ Unclamped(dx) => RoundTrip(dx).inner = Inner

\* C15: neither call is clamped exactly when dx is within the room inner has
\* in the outer box; moveX(dx) then moveX(-dx) restores inner exactly when
\* neither call was clamped, or inner started against the outer edge it is
\* moved away from: its left at outer.left for dx > 0, its right at
\* outer.right for dx < 0.
RoundTripRestores ==
    \A dx \in Deltas :
        /\ Unclamped(dx)
            <=> (Outer.left - Inner.left <= dx /\ dx <= Outer.right - Inner.right)
        /\ RoundTrip(dx).inner = Inner
            <=> \/ Unclamped(dx)
                \/ dx > 0 /\ Inner.left = Outer.left
                \/ dx < 0 /\ Inner.right = Outer.right

\* inner starts at the outer left with room on its right: a translation right
\* further than the room is clamped, and the way back restores inner
RoundTripRestoresWitness ==
    /\ call.op = "moveX"
    /\ Inner.left = Outer.left
    /\ Inner.right < Outer.right
    /\ ~Unclamped(MaxCoord + 1)
    /\ RoundTrip(MaxCoord + 1).inner = Inner

\* C16: each edge move, called twice in a row with the same coordinate, in
\* or out of range, leaves inner as one call leaves it.
EdgeMoveIdempotent ==
    \A c \in Args :
        LET b == Box(heap, nBox)
        IN  /\ moveLeftLine(moveLeftLine(b, c), c).inner = moveLeftLine(b, c).inner
            /\ moveTopLine(moveTopLine(b, c), c).inner = moveTopLine(b, c).inner
            /\ moveRightLine(moveRightLine(b, c), c).inner = moveRightLine(b, c).inner
            /\ moveBottomLine(moveBottomLine(b, c), c).inner = moveBottomLine(b, c).inner

\* the left edge was sent left of the outer box and stays at the outer left
\* when sent there again
EdgeMoveIdempotentWitness ==
    /\ call.op = "moveLeftLine"
    /\ call.arg = -1
    /\ Inner.left = Outer.left
    /\ Inner.left < Inner.right
    /\ moveLeftLine(Box(heap, nBox), -1).inner = Inner

\* an offset's value resolved against a size of the outer box
Resolved(value, unit, size) ==
    IF unit = "%" THEN RoundPct(value, size) ELSE value

\* C17: built on the outer box as it is, with minimums 0 and an offset whose
\* resolved left, top, width and height fit inside the outer box, the engine
\* has inner = {l + ml, t + mt, l + ml + w, t + mt + h}; and outer
\* {0, 0, 200, 100} with offset {25, 25, 50, 50, "%"} gives {50, 25, 150, 75}.
OffsetResolution ==
    /\ \A off \in Offsets \ {NoOffset} :
           LET ml == Resolved(off.left, off.unit, width(Outer))
               mt == Resolved(off.top, off.unit, height(Outer))
               w  == Resolved(off.width, off.unit, width(Outer))
               h  == Resolved(off.height, off.unit, height(Outer))
           IN  (ml >= 0 /\ mt >= 0 /\ w >= 0 /\ h >= 0
                   /\ ml + w <= width(Outer) /\ mt + h <= height(Outer))
                   => ClampBox(Outer.left, Outer.top, Outer.right, Outer.bottom,
                               0, 0, off).inner
                          = DataRect(Outer.left + ml, Outer.top + mt,
                                     Outer.left + ml + w, Outer.top + mt + h)
    /\ ClampBox(0, 0, 200, 100, 0, 0, Offset(25, 25, 50, 50, "%")).inner
           = DataRect(50, 25, 150, 75)

\* a construction whose offset put inner strictly inside the outer box, away
\* from its left and top
OffsetResolutionWitness ==
    /\ call.op = "new"
    /\ nBox.minWidth = 0
    /\ nBox.minHeight = 0
    /\ Inner = DataRect(Outer.left + 1, Outer.top + 1, Outer.left + 2, Outer.top + 2)
    /\ ClampBox(Outer.left, Outer.top, Outer.right, Outer.bottom, 0, 0,
                Offset(1, 1, 1, 1, "px")).inner = Inner

(***************************************************************************)
(* The broadcast channel                                                   *)
(***************************************************************************)
\* C18: notify(v) passes v, once, to every listener that was subscribed when
\* it was called and was not unsubscribed during it, and passes nothing but
\* v; a listener that was not subscribed when it was called, its unsubscribe
\* function having been called or subscribe never, and that is not
\* subscribed during it, gets nothing; and the calls of subscribe and
\* unsubscribe themselves deliver nothing, so no earlier value reaches a
\* listener subscribed later.
BroadcastDelivery ==
    [][/\ call'.op = "notify"
           => \A l \in Listeners :
                  /\ \A k \in 1..Len(channel'.got[l]) : channel'.got[l][k] = call'.arg
                  /\ (channel.on[l] /\ l \notin channel'.removed)
                         => channel'.got[l] = <<call'.arg>>
                  /\ (~channel.on[l] /\ l \notin channel'.added)
                         => channel'.got[l] = <<>>
       /\ call'.op \in {"subscribe", "unsubscribe"}
           => \A l \in Listeners : channel'.got[l] = <<>>]_vars

\* a notify reached "a" and not "b", whose unsubscribe function had been called
BroadcastDeliveryWitness ==
    /\ call.op = "notify"
    /\ channel.got["a"] = <<call.arg>>
    /\ channel.got["b"] = <<>>
    /\ channel.handles["b"].used
    /\ ~channel.on["b"]
    /\ channel.added = {}
    /\ channel.removed = {}

\* C19: a notify during which listeners subscribe and unsubscribe ends within
\* MaxCalls listener invocations and invokes no listener more than once.
ReentrantNotifyOnce ==
    call.op = "notify"
        => /\ ~channel.overrun
           /\ \A l \in Listeners : Len(channel.got[l]) <= 1

\* the step is a second or later call of an unsubscribe function
CalledAgain == call'.op = "unsubscribe" /\ call'.arg.again

\* the listeners subscribed, in the order of the Set
Subscribed(c) == Compact(c.listeners_)

\* C20: notify on a channel without subscribers invokes nothing and
\* leaves the channel as it is, and a second call of an unsubscribe function
\* changes nothing.
MisuseIsNoOp ==
    [][/\ (call'.op = "notify" /\ Subscribed(channel) = <<>>)
           => /\ \A l \in Listeners : channel'.got[l] = <<>>
              /\ Subscribed(channel') = <<>>
       /\ CalledAgain => Subscribed(channel') = Subscribed(channel)]_vars

(***************************************************************************)
(* The edge moves                                                          *)
(***************************************************************************)
\* v brought into the range [lo, hi], lo <= hi
Into(v, lo, hi) == IF v < lo THEN lo ELSE IF v > hi THEN hi ELSE v

\* C23: moveLeftLine(x) sets inner.left to x brought into [outer.left,
\* max(outer.left, inner.right - minWidth)], with inner.right as it is when
\* the call is made, and leaves inner.right, inner.top, inner.bottom and the
\* outer box as they are; moveTopLine(y) likewise on top and bottom.
LeadingEdgeMove ==
    [][/\ call'.op = "moveLeftLine"
           => /\ Inner'.left
                    = Into(call'.arg, Outer.left,
                           Max(Outer.left, Inner.right - nBox.minWidth))
              /\ Inner'.right = Inner.right
              /\ Inner'.top = Inner.top
              /\ Inner'.bottom = Inner.bottom
              /\ Outer' = Outer
       /\ call'.op = "moveTopLine"
           => /\ Inner'.top
                    = Into(call'.arg, Outer.top,
                           Max(Outer.top, Inner.bottom - nBox.minHeight))
              /\ Inner'.bottom = Inner.bottom
              /\ Inner'.left = Inner.left
              /\ Inner'.right = Inner.right
              /\ Outer' = Outer]_vars

\* the top edge was sent below the bottom one and stopped minHeight above it,
\* inside the outer box
LeadingEdgeMoveWitness ==
    /\ call.op = "moveTopLine"
    /\ call.arg > Inner.bottom
    /\ nBox.minHeight = 1
    /\ Inner.top = Inner.bottom - 1
    /\ Inner.top > Outer.top

\* C24: moveRightLine(x) sets inner.right to x brought into [min(outer.right,
\* inner.left + minWidth), outer.right], with inner.left as it is when the
\* call is made, and leaves inner.left, inner.top, inner.bottom and the outer
\* box as they are; moveBottomLine(y) likewise on top and bottom.
TrailingEdgeMove ==
    [][/\ call'.op = "moveRightLine"
           => /\ Inner'.right
                    = Into(call'.arg, Min(Outer.right, Inner.left + nBox.minWidth),
                           Outer.right)
              /\ Inner'.left = Inner.left
              /\ Inner'.top = Inner.top
              /\ Inner'.bottom = Inner.bottom
              /\ Outer' = Outer
       /\ call'.op = "moveBottomLine"
           => /\ Inner'.bottom
                    = Into(call'.arg, Min(Outer.bottom, Inner.top + nBox.minHeight),
                           Outer.bottom)
              /\ Inner'.top = Inner.top
              /\ Inner'.left = Inner.left
              /\ Inner'.right = Inner.right
              /\ Outer' = Outer]_vars

\* the right edge was sent left of the left one and stopped minWidth right of
\* it, short of the outer right
TrailingEdgeMoveWitness ==
    /\ call.op = "moveRightLine"
    /\ call.arg < Inner.left
    /\ nBox.minWidth = 1
    /\ Inner.right = Inner.left + 1
    /\ Inner.right < Outer.right

\* the engine constructed on the outer box as it is, with the minimums that
\* were passed, and offset off
Built(off) ==
    ClampBox(Outer.left, Outer.top, Outer.right, Outer.bottom,
             given.minWidth, given.minHeight, off)

\* C25: constructed with an offset, the engine has inner.left and inner.top
\* at the offset's left and top brought into range, and inner.right at
\* (inner.left + w) brought into [min(outer.right, inner.left + minWidth),
\* outer.right], inner.left being the value already clamped, not outer.left
\* plus the requested left; inner.bottom likewise from inner.top and h.
OrderedOffset ==
    \A off \in Offsets \ {NoOffset} :
        LET b  == Built(off)
            ml == Resolved(off.left, off.unit, width(Outer))
            mt == Resolved(off.top, off.unit, height(Outer))
            w  == Resolved(off.width, off.unit, width(Outer))
            h  == Resolved(off.height, off.unit, height(Outer))
        IN  /\ b.outer = Outer
            /\ b.inner.left
                   = Into(Outer.left + ml, Outer.left,
                          Max(Outer.left, Outer.right - b.minWidth))
            /\ b.inner.top
                   = Into(Outer.top + mt, Outer.top,
                          Max(Outer.top, Outer.bottom - b.minHeight))
            /\ b.inner.right
                   = Into(b.inner.left + w,
                          Min(Outer.right, b.inner.left + b.minWidth), Outer.right)
            /\ b.inner.bottom
                   = Into(b.inner.top + h,
                          Min(Outer.bottom, b.inner.top + b.minHeight), Outer.bottom)

\* a construction whose requested left was clamped, and whose right edge is
\* not where the requested left plus the width would have put it
OrderedOffsetWitness ==
    /\ call.op = "new"
    /\ \E off \in Offsets \ {NoOffset} :
           LET ml == Resolved(off.left, off.unit, width(Outer))
               w  == Resolved(off.width, off.unit, width(Outer))
           IN  /\ Built(off).inner = Inner
               /\ Inner.left # Outer.left + ml
               /\ Inner.right = Inner.left + w
               /\ Inner.right
                      # Into(Outer.left + ml + w,
                             Min(Outer.right, Inner.left + nBox.minWidth), Outer.right)

(***************************************************************************)
(* The outer box                                                           *)
(***************************************************************************)
\* C29: no operation of the engine, whatever its argument, changes a field of
\* the outer box, and no drag event does: the outer box of the current engine
\* is another one only after a layout observation replaced the engine.
OuterImmutable ==
    /\ [](\A c \in Args :
             LET b == Box(heap, nBox)
             IN  /\ moveLeftLine(b, c).outer = Outer
                 /\ moveTopLine(b, c).outer = Outer
                 /\ moveRightLine(b, c).outer = Outer
                 /\ moveBottomLine(b, c).outer = Outer
                 /\ moveX(b, c).outer = Outer
                 /\ moveY(b, c).outer = Outer
                 /\ Deref(toDataBox(State).s.heap, nBox).outer = Outer)
    /\ [][call'.op # "resize" => Outer' = Outer]_vars

\* a pointer-move of a gesture on the area moved inner, inside an outer box
\* wider than it, and handed out a snapshot
OuterImmutableWitness ==
    /\ call.op = "mousemove"
    /\ target = "area"
    /\ out # <<>>
    /\ Inner.left > Outer.left
    /\ Inner.right = Outer.right
    /\ width(Outer) > 0

(***************************************************************************)
(* The notifications of a drag                                             *)
(***************************************************************************)
\* the step is a pointer-move that a listener of the gesture processes: a
\* mouse-move of a mouse gesture, a one-point touch-move of a touch gesture
Processed ==
    /\ target # ""
    /\ \/ call'.op = "mousemove" /\ listeners["mousemove"] > 0
       \/ call'.op = "touchmove" /\ listeners["touchmove"] > 0 /\ call'.arg.touches = 1

\* the events of a topic among evts, the callbacks of a name among cs
OfTopic(evts, topic) == SelectSeq(evts, LAMBDA e : e.topic = topic)

OfName(cs, name) == SelectSeq(cs, LAMBDA c : c.name = name)

\* C21: every processed pointer-move notifies "move" on events$ exactly once,
\* in the same step, with a snapshot of the engine as that move left it, and
\* calls onDrag, if supplied, exactly once with that snapshot's rectangle,
\* whether or not a frame is pending; no other step notifies "move" or calls
\* onDrag.
UnthrottledDrag ==
    [][/\ Processed
           => /\ Len(OfTopic(out', "move")) = 1
              /\ out'[Len(out')].topic = "move"
              /\ Deref(heap', out'[Len(out')].box) = Deref(heap', nBox')
              /\ Inner' = dispatch(Box(heap, nBox), target,
                                   call'.arg.pageX, call'.arg.pageY,
                                   call'.arg.pageX - lastPageX_,
                                   call'.arg.pageY - lastPageY_).inner
              /\ Len(OfName(cbs', "onDrag")) = (IF props.onDrag THEN 1 ELSE 0)
              /\ props.onDrag
                     => LET r == cbs'[Len(cbs')].rect
                        IN  /\ cbs'[Len(cbs')].name = "onDrag"
                            /\ r.x = Inner'.left - Outer'.left
                            /\ r.y = Inner'.top - Outer'.top
                            /\ r.width = Inner'.right - Inner'.left
                            /\ r.height = Inner'.bottom - Inner'.top
       /\ ~Processed
           => /\ OfTopic(out', "move") = <<>>
              /\ OfName(cbs', "onDrag") = <<>>]_vars

\* a second pointer-move before the frame requested by the first has run
\* called onDrag again
UnthrottledDragWitness ==
    /\ call.op = "mousemove"
    /\ Len(rafQueue) = 1
    /\ throttle.pending
    /\ window.moves = 2
    /\ ~window.closed
    /\ Len(OfName(cbs, "onDrag")) = 1

\* C22: the rectangles passed to onDrag are, in order, those of the "move"
\* snapshots notified, and those passed to onEnd those of the "end"
\* snapshots: x = inner.left - outer.left, y = inner.top - outer.top, width
\* and height those of inner; each lies inside the outer box at its origin:
\* 0 <= x, 0 <= y, x + width <= outer.width, y + height <= outer.height.
RelativeRectangle ==
    \A pair \in {<<"onDrag", "move">>, <<"onEnd", "end">>} :
        LET rects == OfName(cbs, pair[1])
            snaps == OfTopic(out, pair[2])
        IN  /\ Len(rects) = (IF props[pair[1]] THEN Len(snaps) ELSE 0)
            /\ \A k \in 1..Len(rects) :
                   LET r == rects[k].rect
                       i == heap[snaps[k].box.inner]
                       o == heap[snaps[k].box.outer]
                   IN  /\ r.x = i.left - o.left
                       /\ r.y = i.top - o.top
                       /\ r.width = i.right - i.left
                       /\ r.height = i.bottom - i.top
                       /\ 0 <= r.x
                       /\ 0 <= r.y
                       /\ r.x + r.width <= o.right - o.left
                       /\ r.y + r.height <= o.bottom - o.top

\* a gesture ended in an outer box away from the page's origin: onEnd got
\* inner's place in the outer box, not on the page
RelativeRectangleWitness ==
    /\ call.op = "mouseup"
    /\ Outer.left = 1
    /\ Inner.left = 1
    /\ cbs = <<[name |-> "onEnd", rect |-> [x |-> 0, y |-> 0, width |-> 1, height |-> 1]]>>

(***************************************************************************)
(* What a pointer-move does to the engine                                  *)
(***************************************************************************)
\* the edges a direction names
Named(tgt) ==
    CASE tgt = "left"         -> {"left"}
      [] tgt = "top"          -> {"top"}
      [] tgt = "right"        -> {"right"}
      [] tgt = "bottom"       -> {"bottom"}
      [] tgt = "left-top"     -> {"left", "top"}
      [] tgt = "left-bottom"  -> {"left", "bottom"}
      [] tgt = "right-top"    -> {"right", "top"}
      [] tgt = "right-bottom" -> {"right", "bottom"}

\* where the edge-move of edge e puts that edge, the pointer at (x, y)
EdgeMoved(b, e, x, y) ==
    CASE e = "left"   -> moveLeftLine(b, x).inner.left
      [] e = "top"    -> moveTopLine(b, y).inner.top
      [] e = "right"  -> moveRightLine(b, x).inner.right
      [] e = "bottom" -> moveBottomLine(b, y).inner.bottom

\* inner rectangle `after` is what a pointer-move to (x, y), (dx, dy) from the
\* last position, makes of engine b under target tgt
Follows(b, after, tgt, x, y, dx, dy) ==
    IF tgt = "area"
    THEN /\ after = moveY(moveX(b, dx), dy).inner
         /\ width(after) = width(b.inner)
         /\ height(after) = height(b.inner)
    ELSE \A e \in {"left", "top", "right", "bottom"} :
             after[e] = IF e \in Named(tgt) THEN EdgeMoved(b, e, x, y) ELSE b.inner[e]

\* C26: a pointer-move under a directional target moves each edge the target
\* names as that edge's move does, with the pointer's x for left and right
\* and its y for top and bottom, and leaves the other edges as they are;
\* under "area" it translates inner by the pointer's delta, as moveX and
\* moveY do, and leaves inner's width and height as they are.
TargetDispatch ==
    [][Processed
           => Follows(Box(heap, nBox), Inner', target,
                      call'.arg.pageX, call'.arg.pageY,
                      call'.arg.pageX - lastPageX_,
                      call'.arg.pageY - lastPageY_)]_vars

\* a pointer-move on the left-top handle brought the left and the top edge
\* to the pointer and left the right and bottom edges where they were
TargetDispatchWitness ==
    /\ call.op = "mousemove"
    /\ target = "left-top"
    /\ out # <<>>
    /\ Inner.left = call.arg.pageX
    /\ Inner.top = call.arg.pageY
    /\ Inner.left > Outer.left
    /\ Inner.top > Outer.top
    /\ Inner.right = Outer.right
    /\ Inner.bottom = Outer.bottom

\* C27: a drag-start that is accepted records the pointer's position; each
\* pointer-move processed then records the new position, and under "area"
\* translates inner by (dx, dy) = the new position minus the one recorded
\* before it, which for the first move is the drag-start position; no other
\* step changes the recorded position. The deltas of a gesture therefore add
\* up to its last position minus its drag-start position.
PointerDeltas ==
    [][/\ (call'.op = "mousedown" /\ target = "")
           => /\ lastPageX_' = call'.arg.pageX
              /\ lastPageY_' = call'.arg.pageY
       /\ Processed
           => /\ lastPageX_' = call'.arg.pageX
              /\ lastPageY_' = call'.arg.pageY
              /\ target = "area"
                     => Inner' = moveY(moveX(Box(heap, nBox),
                                             call'.arg.pageX - lastPageX_),
                                       call'.arg.pageY - lastPageY_).inner
       /\ (~Processed /\ ~(call'.op = "mousedown" /\ target = ""))
           => /\ lastPageX_' = lastPageX_
              /\ lastPageY_' = lastPageY_]_vars

\* the second pointer-move of a gesture on the area, after the box had been
\* made smaller than the outer one: inner sits where the pointer took it
PointerDeltasWitness ==
    /\ call.op = "mousemove"
    /\ target = "area"
    /\ window.moves = 2
    /\ lastPageX_ = call.arg.pageX
    /\ lastPageY_ = call.arg.pageY
    /\ width(Inner) < width(Outer)
    /\ Inner.left > Outer.left
    /\ Inner.right = Outer.right

(***************************************************************************)
(* Layout observations                                                     *)
(***************************************************************************)
\* C28: a layout observation whose rectangle has the left, top, right and
\* bottom of the current outer box leaves the engine, inner included, as it
\* is; one that differs in any of the four replaces the engine with one
\* constructed on the observed rectangle, its inner at the outer box, or
\* where the initial offset puts it.
ResizeReplacement ==
    [][call'.op = "resize"
           => IF /\ call'.arg.left = Outer.left
                 /\ call'.arg.top = Outer.top
                 /\ call'.arg.right = Outer.right
                 /\ call'.arg.bottom = Outer.bottom
              THEN /\ Box(heap', nBox') = Box(heap, nBox)
                   /\ pub' = <<>>
              ELSE /\ Outer' = call'.arg
                   /\ nBox'.minWidth = Into(props.minWidth, 0, width(call'.arg))
                   /\ nBox'.minHeight = Into(props.minHeight, 0, height(call'.arg))
                   /\ Inner' = IF props.initialRect.given
                               THEN ClampBox(call'.arg.left, call'.arg.top,
                                             call'.arg.right, call'.arg.bottom,
                                             props.minWidth, props.minHeight,
                                             props.initialRect).inner
                               ELSE call'.arg]_vars

\* the layout was observed again, unchanged, after the user had made inner
\* smaller than the outer box: inner is still smaller
ResizeReplacementWitness ==
    /\ call.op = "resize"
    /\ call.arg = Outer
    /\ ~props.initialRect.given
    /\ width(Inner) < width(Outer)

(***************************************************************************)
(* The broadcast and the onDrag prop                                       *)
(***************************************************************************)
\* C30: every processed pointer-move hands a snapshot of the engine as the
\* move left it to the frame-throttled broadcast on dataBox$, whether or not
\* onDrag is supplied.
BroadcastWithoutCallback ==
    [][Processed
           => /\ throttle'.pending
              /\ throttle'.args.set
              /\ rafQueue' # <<>>
              /\ Deref(heap', throttle'.args.box) = Deref(heap', nBox')]_vars

(***************************************************************************)
(* What the presentation ends up showing                                   *)
(***************************************************************************)
\* C31: with Crop mounted and no layout change, whether or not the callback
\* props are supplied, a snapshot not yet delivered on dataBox$ is the engine
\* as it is and has a frame requested for it; no step changes the engine
\* without leaving such a snapshot; and the frame delivers it and leaves
\* nothing pending. So once a gesture has ended and the requested frames have
\* run, the last snapshot delivered is the engine as the gesture's last
\* pointer-move left it.
PresentationConvergence ==
    /\ [](throttle.pending
             => /\ rafQueue # <<>>
                /\ throttle.args.set
                /\ Deref(heap, throttle.args.box) = Deref(heap, nBox))
    /\ [][/\ Deref(heap', nBox') # Deref(heap, nBox) => throttle'.pending
          /\ (call'.op = "frame" /\ throttle.pending)
                 => /\ Len(pub') = 1
                    /\ Deref(heap', pub'[1]) = Deref(heap', nBox')
                    /\ Deref(heap', nBox') = Deref(heap, nBox)
                    /\ ~throttle'.pending
                    /\ rafQueue' = <<>>
          /\ (call'.op # "frame" /\ throttle.pending) => throttle'.pending]_vars

\* C32: with no layout change, only a processed pointer-move changes the
\* engine, and its "move" carries the engine as it left it; the "end" of a
\* gesture carries the engine as it was before the release, which is what the
\* gesture's last "move" carried, and onEnd gets that rectangle.
EndEqualsLastDrag ==
    [][/\ ~Processed => Deref(heap', nBox') = Deref(heap, nBox)
       /\ Processed
              => /\ out'[Len(out')].topic = "move"
                 /\ Deref(heap', out'[Len(out')].box) = Deref(heap', nBox')
                 /\ window'.last = [set |-> TRUE, box |-> Deref(heap', nBox')]
       /\ \A k \in 1..Len(out') :
              out'[k].topic = "end"
                  => /\ Deref(heap', out'[k].box) = Deref(heap, nBox)
                     /\ window.last.set => Deref(heap', out'[k].box) = window.last.box
                     /\ OfName(cbs', "onEnd")
                            = <<[name |-> "onEnd",
                                 rect |-> [x |-> Inner.left - Outer.left,
                                           y |-> Inner.top - Outer.top,
                                           width |-> Inner.right - Inner.left,
                                           height |-> Inner.bottom - Inner.top]]>>]_vars

\* a release notified "end" with the rectangle of the gesture's last "move",
\* inner having been made smaller than the outer box
EndEqualsLastDragWitness ==
    /\ call.op = "mouseup"
    /\ Len(out) = 1
    /\ out[1].topic = "end"
    /\ window.last.set
    /\ Deref(heap, out[1].box) = window.last.box
    /\ width(Inner) < width(Outer)
    /\ height(Inner) < height(Outer)

(***************************************************************************)
(* Layout observations during a gesture                                    *)
(***************************************************************************)
\* C33: however layout observations interleave with the events of a
\* gesture, the current engine keeps inner inside outer and at least the
\* minimums wide and high after every event; a layout observation leaves the
\* target, the moved flag, the recorded pointer position and the attached
\* listeners as they are; and a pointer-move processed after it moves the
\* edges of the engine that is current then, inside that engine's outer box.
ResizeDuringDrag ==
    /\ [](/\ Containment
          /\ width(Inner) >= Min(props.minWidth, width(Outer))
          /\ height(Inner) >= Min(props.minHeight, height(Outer)))
    /\ [][/\ call'.op = "resize"
                 => /\ target' = target
                    /\ moved_' = moved_
                    /\ lastPageX_' = lastPageX_
                    /\ lastPageY_' = lastPageY_
                    /\ listeners' = listeners
                    /\ out' = <<>>
          /\ Processed
                 => /\ Outer' = Outer
                    /\ Follows(Box(heap, nBox), Inner', target,
                               call'.arg.pageX, call'.arg.pageY,
                               call'.arg.pageX - lastPageX_,
                               call'.arg.pageY - lastPageY_)]_vars

\* a layout observation replaced the engine in the middle of a mouse gesture
\* that had moved: the gesture goes on
ResizeDuringDragWitness ==
    /\ call.op = "resize"
    /\ pub # <<>>
    /\ target # ""
    /\ moved_
    /\ listeners = MouseListeners
    /\ Outer = call.arg

(***************************************************************************)
(* Teardown and the document's listeners                                   *)
(***************************************************************************)
\* C34: once Crop is torn down, in Idle or during a gesture, no listener of
\* the drag state machine is attached to the document, and no later event
\* changes the engine or notifies anything.
TeardownReleasesListeners ==
    /\ [](~mounted => listeners = NoListeners)
    /\ [][~mounted
             => /\ Deref(heap', nBox') = Deref(heap, nBox)
                /\ out' = <<>>]_vars

(***************************************************************************)
(* The start and the end of a gesture                                      *)
(***************************************************************************)
\* C35: in Idle, a pointer-down on a handle, by mouse or by one touch point,
\* handled by the handle and then by the area around it, starts a gesture
\* whose target is the handle's direction, not "area", with the listeners of
\* its input kind attached once each.
HandleWinsOverArea ==
    /\ [](target = ""
             => \A dir \in Directions, type \in {"mouse", "touch"}, p \in Positions :
                    \E s \in {onDragStart(State, type, dir, p[1], p[2])} :
                        /\ s.target = dir
                        /\ s.target # "area"
                        /\ s.listeners = IF type = "mouse" THEN MouseListeners
                                         ELSE TouchListeners)
    /\ [][(call'.op = "mousedown" /\ target = "")
             => /\ target' = call'.arg.elem
                /\ listeners' = MouseListeners]_vars

\* a mouse-down on the left-top handle started a gesture on that handle
HandleWinsOverAreaWitness ==
    /\ call.op = "mousedown"
    /\ call.arg.elem = "left-top"
    /\ target = "left-top"
    /\ listeners = MouseListeners
    /\ ~moved_

\* the release the active gesture listens to arrives: a mouse-up in a mouse
\* gesture, a touch-end or a touch-cancel in a touch gesture
GestureRelease ==
    /\ target # ""
    /\ \E op \in {"mouseup", "touchend", "touchcancel"} :
        /\ listeners[op] > 0
        /\ call' = [op |-> op, arg |-> 0]

\* the gestures of SpecDrag, each of which gets its release in the end
SpecDragFair == InitDrag /\ [][NextDrag]_vars /\ WF_call(GestureRelease)

\* C36: from Dragging, the release of the gesture's own input kind (mouse-up;
\* touch-end, touch-cancel or a second touch point) leads to Idle with no
\* listener left; from Idle a mouse-down or a one-point touch-start on an
\* element starts a gesture on that element; and if every gesture gets its
\* release, the machine is Idle again and again.
NoStuckGesture ==
    /\ [][(OwnRelease \/ SecondTouch)
             => target' = "" /\ listeners' = NoListeners]_vars
    /\ [](target = "" /\ mounted
             => \A elem \in Elements, type \in {"mouse", "touch"}, p \in Points :
                    \E s \in {onDragStart(State, type, elem, p[1], p[2])} :
                        /\ s.target = elem
                        /\ s.listeners = IF type = "mouse" THEN MouseListeners
                                         ELSE TouchListeners)
    /\ [][(target = "" /\ mounted /\ call'.op = "mousedown")
             => target' # "" /\ listeners' = MouseListeners]_vars
    /\ [][(target = "" /\ mounted /\ call'.op = "touchstart" /\ call'.arg = 1
              /\ listeners' # NoListeners)
             => target' # "" /\ listeners' = TouchListeners]_vars
    /\ (target # "") ~> (target = "")
    /\ []<>(target = "")

\* a touch gesture that moved got its touch-end, and the machine is Idle
NoStuckGestureWitness ==
    /\ call.op = "touchend"
    /\ target = ""
    /\ listeners = NoListeners
    /\ log = <<"start", "move", "end">>

(***************************************************************************)
(* A listener subscribed twice                                             *)
(***************************************************************************)
\* the number of entries of the Set that are x
Count(entries, x) == Cardinality({i \in 1..Len(entries) : entries[i] = x})

\* C37: subscribing a listener that is subscribed already leaves the Set as
\* it is, so a listener is registered at most once; a notify invokes a
\* listener that holds two uncalled unsubscribe functions exactly once; and a
\* first call of one of them removes the listener while the other stays
\* uncalled, after which a notify passes it nothing unless it subscribes again.
DuplicateSubscription ==
    /\ [](\A l \in Listeners : Count(channel.listeners_, l) <= 1)
    /\ [][\A l \in Listeners :
            /\ (call'.op = "subscribe" /\ call'.arg.listener = l
                    /\ has(channel.listeners_, l))
                   => /\ Subscribed(channel') = Subscribed(channel)
                      /\ channel'.handles[l].fresh = channel.handles[l].fresh + 1
            /\ (call'.op = "notify" /\ channel.handles[l].fresh = 2 /\ channel.on[l]
                    /\ l \notin channel'.removed)
                   => channel'.got[l] = <<call'.arg>>
            /\ (call'.op = "unsubscribe" /\ call'.arg.listener = l /\ ~call'.arg.again
                    /\ channel.handles[l].fresh = 2)
                   => /\ ~has(channel'.listeners_, l)
                      /\ channel'.handles[l].fresh = 1
            /\ (call'.op = "notify" /\ channel.handles[l].fresh >= 1 /\ ~channel.on[l]
                    /\ l \notin channel'.added)
                   => channel'.got[l] = <<>>]_vars

\* "b", subscribed twice, had one of its two unsubscribe functions called, and
\* the notify that followed reached "a" alone
DuplicateSubscriptionWitness ==
    /\ call.op = "notify"
    /\ channel.handles["b"] = [fresh |-> 1, used |-> TRUE]
    /\ ~channel.on["b"]
    /\ channel.got["b"] = <<>>
    /\ channel.got["a"] = <<call.arg>>
    /\ channel.script["a"] = <<>>

(***************************************************************************)
(* NestedBox: the engine that stores its minimums unclamped                *)
(***************************************************************************)
\* minimum sizes that are not negative: none, fitting, larger than any outer box
NestedMinArgs == {0, 1, MaxCoord + 1}

InitNested ==
    \E l \in 0..1 :
    \E t \in {l} :
    \E r \in l..MaxCoord, b \in t..MaxCoord :
    \E mw \in NestedMinArgs, mh \in NestedMinArgs :
    \E off \in Offsets :
        LET n == NewBox(EmptyHeap, NestedBox(l, t, r, b, mw, mh, off))
        IN  /\ heap = n.heap
            /\ nBox = n.nBox
            /\ given = [minWidth |-> mw, minHeight |-> mh]
            /\ call = [op |-> "new", arg |-> 0]
            /\ target = ""
            /\ lastPageX_ = 0
            /\ lastPageY_ = 0
            /\ moved_ = FALSE
            /\ listeners = NoListeners
            /\ throttle = [pending |-> FALSE, args |-> NoArgs]
            /\ rafQueue = <<>>
            /\ props = [minWidth |-> 0, minHeight |-> 0, initialRect |-> NoOffset,
                        onStart |-> FALSE, onDrag |-> FALSE, onEnd |-> FALSE]
            /\ out = <<>>
            /\ pub = <<>>
            /\ cbs = <<>>
            /\ log = <<>>
            /\ window = NoWindow
            /\ kept = NoArgs
            /\ mounted = TRUE
            /\ channel = NewChannel(<<>>)

\* a NestedBox, any construction with minimums that are not negative, then
\* any sequence of calls of its methods
SpecNested == InitNested /\ [][Next]_vars

\* C38: a NestedBox keeps the minimums as they were passed, larger than the
\* outer box or not, and after construction and after every edge-move and
\* translation its inner box lies inside the outer box and is not inverted,
\* for all minimums that are not negative.
UnclampedContainment ==
    /\ nBox.minWidth = given.minWidth
    /\ nBox.minHeight = given.minHeight
    /\ given.minWidth >= 0 /\ given.minHeight >= 0
    /\ Outer.left <= Inner.left /\ Inner.left <= Inner.right /\ Inner.right <= Outer.right
    /\ Outer.top <= Inner.top /\ Inner.top <= Inner.bottom /\ Inner.bottom <= Outer.bottom

\* with a minimum width larger than the outer box, the right edge was asked
\* to move to the outer box's left edge and stays at its right edge, while
\* the top edge, with no minimum height, has moved down
UnclampedContainmentWitness ==
    /\ call.op = "moveRightLine"
    /\ call.arg = Outer.left
    /\ nBox.minWidth > width(Outer)
    /\ width(Outer) > 0
    /\ Inner.left = Outer.left
    /\ Inner.right = Outer.right
    /\ nBox.minHeight = 0
    /\ Inner.top > Outer.top

====
